---- MODULE Spec2Model ----
(***************************************************************************)
(* Command discovery engine of the Zephyr Device Manager front end         *)
(* (terminalApp, section "COMMAND DISCOVERY SYSTEM"): the discovery lock,  *)
(* the top-level scan, the recursive subcommand walk with pause and        *)
(* cancel, the response framers and the localStorage command cache.        *)
(*                                                                         *)
(* JavaScript runs every handler to completion: between two awaits on a    *)
(* timer no other handler runs.  The position of each async function is a  *)
(* pc; the pcs in Blocked are the awaits on a timer, all other pcs are     *)
(* mid-handler positions during which no other action is enabled.          *)
(***************************************************************************)
EXTENDS Integers, Sequences, FiniteSets, TLC

VARIABLES
    connected,                  \* this.connected
    wsOpen,                     \* this.ws && this.ws.readyState === WebSocket.OPEN
    discoveryLock,              \* this.discoveryLock
    commandDiscoveryInProgress, \* this.commandDiscoveryInProgress
    discoveryCollectedData,     \* this.discoveryCollectedData, as a sequence of lines
    over60,                     \* Date.now() - this.discoveryStartTime > 60000 at the last reading
    showDiscoveryConfirm,       \* this.showDiscoveryConfirm
    discoveryPaused,            \* this.discoveryPaused
    discoveryCancelRequested,   \* this.discoveryCancelRequested
    commands,                   \* this.commands
    commandsCache,              \* this.commandsCache
    lastScannedTime,            \* this.lastScannedTime
    storage,                    \* localStorage item 'zephyr_commands_cache'
    loadingCommands,            \* this.loadingCommands
    showCommands,               \* this.showCommands
    statusMessageType,          \* this.statusMessageType: type of the last showStatus
    discoveringSubcommands,     \* ids with this.discoveringSubcommands[id] === true
    scanPc,                     \* position of the scanCommands call
    scanI,                      \* loop index i of discoverAllSubcommands (1-based)
    stack,                      \* activations holding a command object, innermost last
    manualPc,                   \* position of the discoverSubcommands call
    manualCmd,                  \* index in commands of its argument
    wait,                       \* closure state of the wait in progress
    pending,                    \* chunks the shell has produced and not yet delivered
    probesSent,                 \* texts written to the channel since the lock was taken
    treeAtCancel,               \* history: commands when cancelDiscovery was called
    discoveries,                \* history: requests that went on to write to the channel
    parserInput,                \* arguments of the parser called last, and what the shell wrote
    parserOutput,               \* the parser called last and the value it returned
    discoveryProgress,          \* this.discoveryProgress
    activeSessionId,            \* this.activeSessionId
    otherSession,               \* the session of this.sessions that is not the active one
    scanSessionId               \* history: activeSessionId when the scan in progress took the lock

vars == <<connected, wsOpen, discoveryLock, commandDiscoveryInProgress,
          discoveryCollectedData, over60, showDiscoveryConfirm, discoveryPaused,
          discoveryCancelRequested, commands, commandsCache, lastScannedTime,
          storage, loadingCommands, showCommands, statusMessageType,
          discoveringSubcommands, scanPc, scanI, stack, manualPc, manualCmd,
          wait, pending, probesSent, treeAtCancel, discoveries,
          parserInput, parserOutput, discoveryProgress, activeSessionId,
          otherSession, scanSessionId>>

\* null and undefined, per type of the value that may be missing
NULL == "null"                    \* hasSubcommands: null | "true" | "false"
NoArray == <<[null |-> TRUE]>>    \* subcommands: null
NoObject == [null |-> TRUE]       \* commandsCache: null, getItem: null
NoTime == "null"                  \* lastScannedTime: null
NoRef == << >>                    \* parentCmd: undefined
THROWN == [thrown |-> TRUE]       \* an exception instead of a value
NoCall == [fn |-> "none"]         \* no parser has been called
NoSession == 0                    \* no scan has taken the lock yet
InitialProgress == [current |-> 0, total |-> 0]   \* discoveryProgress: { current: 0, total: 0 }

\* A session of this.sessions that is not active: its id, its connected
\* flag, whether its socket is open, and what its shell has written and the
\* socket not yet delivered.
Closed(id) == [id |-> id, connected |-> FALSE, wsOpen |-> FALSE, pending |-> << >>]

\* Timestamps: the one a cache found at page load carries, and the value
\* of new Date().toISOString() during the session.
StoredTime == "stored"
SessionTime == "session"

(***************************************************************************)
(* Strings are sequences of one-character strings.                         *)
(***************************************************************************)
SP == <<" ">>

RECURSIVE TrimStart(_)
TrimStart(s) == IF s # <<>> /\ Head(s) = " " THEN TrimStart(Tail(s)) ELSE s

RECURSIVE TrimEnd(_)
TrimEnd(s) ==
    IF s # <<>> /\ s[Len(s)] = " " THEN TrimEnd(SubSeq(s, 1, Len(s) - 1)) ELSE s

\* String.prototype.trim
Trim(s) == TrimEnd(TrimStart(s))

\* String.prototype.startsWith
StartsWith(s, p) == Len(s) >= Len(p) /\ SubSeq(s, 1, Len(p)) = p

\* String.prototype.endsWith
EndsWith(s, p) == Len(s) >= Len(p) /\ SubSeq(s, Len(s) - Len(p) + 1, Len(s)) = p

\* String.prototype.includes
Includes(s, p) == \E k \in 0..(Len(s) - Len(p)) : SubSeq(s, k + 1, k + Len(p)) = p

\* String.prototype.substring(from), from counted from 0
Substring(s, from) == SubSeq(s, from + 1, Len(s))

HelpProbe == <<"h", "e", "l", "p", "\n">>
HelpSuffix == <<" ", "-", "-", "h", "e", "l", "p", "\n">>

(***************************************************************************)
(* The shell on the other side of the channel.  It answers `help` with the *)
(* top-level listing and `<path> --help` with the description line of the  *)
(* path followed by its subcommand listing, or with the description line   *)
(* alone for a command without subcommands.  A line is a record; a chunk   *)
(* is a sequence of lines.                                                 *)
(***************************************************************************)
ShellTop == << <<"a">>, <<"b">> >>

ShellSubs(path) ==
    CASE path = <<"a">> -> << <<"x">> >>
      [] path = <<"a", " ", "x">> -> << <<"z">> >>
      [] OTHER -> << >>

TopMarkerLine == [k |-> "top_marker"]   \* "Available commands:"
SubMarkerLine == [k |-> "sub_marker"]   \* "Subcommands:"
PromptLine == [k |-> "prompt"]          \* "uart:~$ "
CmdLine(n) == [k |-> "cmd", n |-> n]    \* "<n>  : <description>"
LeafLine(n) == [k |-> "leaf", n |-> n]  \* "<n> - <description>"

OutputLine == [k |-> "out"]             \* a line a command prints when executed

CmdLines(names) == [j \in 1..Len(names) |-> CmdLine(names[j])]

ShellLines(probe) ==
    IF probe = HelpProbe
    THEN <<TopMarkerLine>> \o CmdLines(ShellTop) \o <<PromptLine>>
    ELSE LET path == SubSeq(probe, 1, Len(probe) - Len(HelpSuffix))
         IN IF ShellSubs(path) # << >>
            THEN <<LeafLine(path), SubMarkerLine>>
                     \o CmdLines(ShellSubs(path)) \o <<PromptLine>>
            ELSE <<LeafLine(path), PromptLine>>

\* The channel delivers the top-level listing in two chunks, cut after the
\* first command line, and every other response in one chunk.
Chunks(lines) ==
    IF Head(lines) = TopMarkerLine
    THEN <<SubSeq(lines, 1, 2), SubSeq(lines, 3, Len(lines))>>
    ELSE <<lines>>

ShellResponse(probe) == Chunks(ShellLines(probe))

(***************************************************************************)
(* Help-text parsers, on lines.  The regular expressions of the source     *)
(* classify a line; here the class is the line's k field.                  *)
(***************************************************************************)
\* Characters of a line as the shell writes it (the prompt has no newline).
Chars(line) ==
    CASE line.k = "top_marker" -> 20
      [] line.k = "sub_marker" -> 13
      [] line.k = "prompt" -> 8
      [] line.k = "out" -> 4
      [] OTHER -> Len(line.n) + 5

RECURSIVE DataLength(_)
\* discoveryCollectedData.length
DataLength(data) ==
    IF data = << >> THEN 0 ELSE Chars(Head(data)) + DataLength(Tail(data))

\* discoveryCollectedData.match(/[\$>] $/) || .match(/\n.*[\$>] $/)
EndsWithPrompt(data) == data # << >> /\ data[Len(data)].k = "prompt"

\* discoveryCollectedData.includes('Available commands:')
HasTopMarker(data) == \E j \in 1..Len(data) : data[j].k = "top_marker"

\* The object parseHelpOutput pushes for a command line.
TopNode(n) ==
    [id |-> n, name |-> n, hasSubcommands |-> NULL, subcommands |-> NoArray]

RECURSIVE ParseHelpLines(_, _)
ParseHelpLines(lines, inCommandSection) ==
    IF lines = << >> THEN << >>
    ELSE LET line == Head(lines)
         IN IF line.k = "top_marker" THEN ParseHelpLines(Tail(lines), TRUE)
            ELSE IF inCommandSection /\ line.k = "cmd"
            THEN <<TopNode(line.n)>> \o ParseHelpLines(Tail(lines), inCommandSection)
            ELSE ParseHelpLines(Tail(lines), inCommandSection)

ParseHelpOutput(helpText) == ParseHelpLines(helpText, FALSE)

\* The object parseSubcommands pushes for a subcommand line.
SubNode(parentCommand, n) ==
    [id |-> parentCommand \o <<"_">> \o n \o SP,
     name |-> n,
     fullName |-> parentCommand \o SP \o n \o SP,
     parent |-> parentCommand,
     parentCmd |-> NoRef]

RECURSIVE ParseSubLines(_, _, _)
ParseSubLines(lines, parentCommand, inSubcommandSection) ==
    IF lines = << >> THEN << >>
    ELSE LET line == Head(lines)
             rest == Tail(lines)
         IN IF line.k = "sub_marker" THEN ParseSubLines(rest, parentCommand, TRUE)
            ELSE IF inSubcommandSection /\ line.k = "cmd" /\ line.n # parentCommand
            THEN <<SubNode(parentCommand, line.n)>>
                     \o ParseSubLines(rest, parentCommand, inSubcommandSection)
            ELSE ParseSubLines(rest, parentCommand, inSubcommandSection)

\* lines.length <= 3 and some line has the parent's name, a '-' and no '--'
HasSimpleFormat(lines, parentCommand) ==
    /\ Len(lines) <= 3
    /\ \E j \in 1..Len(lines) :
           lines[j].k = "leaf" /\ Includes(lines[j].n, parentCommand)

ParseSubcommands(helpText, parentCommand) ==
    IF HasSimpleFormat(helpText, parentCommand) THEN << >>
    ELSE ParseSubLines(helpText, parentCommand, FALSE)

(***************************************************************************)
(* The same parsers on text.  A help text is a string; its lines are       *)
(* classified by the regular expressions of the source, and the loops over *)
(* the classified lines are the ones above.  The look-ahead loops of the   *)
(* parsers stop at every line that matches a command and so skip none:     *)
(* they gather description and usage, which the nodes here do not carry.   *)
(***************************************************************************)
Esc == "\\x1b"                    \* the character U+001B

Digits == {"0", "1", "2", "3", "4", "5", "6", "7", "8", "9"}

UpperCase ==
    <<"A", "B", "C", "D", "E", "F", "G", "H", "I", "J", "K", "L", "M", "N",
       "O", "P", "Q", "R", "S", "T", "U", "V", "W", "X", "Y", "Z">>

LowerCase ==
    <<"a", "b", "c", "d", "e", "f", "g", "h", "i", "j", "k", "l", "m", "n",
       "o", "p", "q", "r", "s", "t", "u", "v", "w", "x", "y", "z">>

\* \w
WordChars ==
    {UpperCase[j] : j \in 1..Len(UpperCase)}
        \cup {LowerCase[j] : j \in 1..Len(LowerCase)} \cup Digits \cup {"_"}

\* [\w_-]
DashWordChars == WordChars \cup {"-"}

\* \s
Whitespace == {" ", "\t", "\r", "\n"}

RECURSIVE RunLength(_, _, _)
\* Number of characters of s from position from on that are in class.
RunLength(s, from, class) ==
    IF from <= Len(s) /\ s[from] \in class
    THEN 1 + RunLength(s, from + 1, class)
    ELSE 0

RECURSIVE RunLengthNot(_, _, _)
\* Number of characters of s from position from on that are not in class.
RunLengthNot(s, from, class) ==
    IF from <= Len(s) /\ s[from] \notin class
    THEN 1 + RunLengthNot(s, from + 1, class)
    ELSE 0

RECURSIVE StripEscapes(_, _, _)
\* s.replace(/\x1b\[<class>*<final>/g, ''): the text is copied up to the next
\* escape character, and the sequence that begins there is left out if it
\* is one.
StripEscapes(s, class, final) ==
    LET keep == RunLengthNot(s, 1, {Esc})
    IN IF keep = Len(s) THEN s
       ELSE LET n == RunLength(s, keep + 3, class)
            IN IF /\ Len(s) >= keep + n + 3
                  /\ s[keep + 2] = "["
                  /\ s[keep + n + 3] = final
               THEN SubSeq(s, 1, keep)
                        \o StripEscapes(SubSeq(s, keep + n + 4, Len(s)),
                                        class, final)
               ELSE SubSeq(s, 1, keep + 1)
                        \o StripEscapes(SubSeq(s, keep + 2, Len(s)),
                                        class, final)

\* helpText.replace(/\x1b\[[0-9;]*m/g, '').replace(/\x1b\[[0-9]*C/g, '')
CleanText(helpText) ==
    StripEscapes(StripEscapes(helpText, Digits \cup {";"}, "m"), Digits, "C")

RECURSIVE Split(_, _)
\* String.prototype.split(separator), for a separator of one character
Split(s, separator) ==
    LET n == RunLengthNot(s, 1, {separator})
    IN IF n = Len(s) THEN <<s>>
       ELSE <<SubSeq(s, 1, n)>> \o Split(SubSeq(s, n + 2, Len(s)), separator)

RECURSIVE TrailLength(_, _)
\* Number of characters at the end of s that are in class.
TrailLength(s, class) ==
    IF s # << >> /\ s[Len(s)] \in class
    THEN 1 + TrailLength(SubSeq(s, 1, Len(s) - 1), class)
    ELSE 0

\* String.prototype.trim, for the white space a line can hold
TrimLine(s) ==
    LET rest == SubSeq(s, RunLength(s, 1, Whitespace) + 1, Len(s))
    IN SubSeq(rest, 1, Len(rest) - TrailLength(rest, Whitespace))

\* cleanText.split('\n').map(line => line.trim()).filter(line => line.length > 0)
CleanLines(helpText) ==
    LET lines == Split(CleanText(helpText), "\n")
        trimmed == [j \in 1..Len(lines) |-> TrimLine(lines[j])]
    IN SelectSeq(trimmed, LAMBDA line : Len(line) > 0)

\* The lower-case letter of every upper-case letter.
LowerOf ==
    [c \in {UpperCase[j] : j \in 1..Len(UpperCase)} |->
        LowerCase[CHOOSE j \in 1..Len(UpperCase) : UpperCase[j] = c]]

\* String.prototype.toLowerCase
ToLowerCase(s) ==
    [j \in 1..Len(s) |-> IF s[j] \in DOMAIN LowerOf THEN LowerOf[s[j]] ELSE s[j]]

AvailableCommands ==
    <<"A", "v", "a", "i", "l", "a", "b", "l", "e", " ", "c", "o", "m", "m",
            "a", "n", "d", "s", ":">>
SubcommandsColon == <<"s", "u", "b", "c", "o", "m", "m", "a", "n", "d", "s",
        ":">>

NoMatch == << >>                  \* String.prototype.match: null

\* cmdMatch[1] of line.match(/^(\w[\w_]*)\s+:\s*(.*)$/)
TopCommandMatch(line) ==
    LET n == RunLength(line, 1, WordChars)
        sp == RunLength(line, n + 1, Whitespace)
    IN IF n >= 1 /\ sp >= 1 /\ Len(line) > n + sp /\ line[n + sp + 1] = ":"
       THEN SubSeq(line, 1, n)
       ELSE NoMatch

\* cmdMatch[1] of line.match(/^(\w[\w_-]*)\s+:\s*(.*)$/), or else of
\* line.match(/^(\w[\w_-]+)\s{2,}(.+)$/)
SubCommandMatch(line) ==
    LET n == IF line # << >> /\ Head(line) \in WordChars
             THEN 1 + RunLength(line, 2, DashWordChars)
             ELSE 0
        sp == RunLength(line, n + 1, Whitespace)
    IN IF n >= 1 /\ sp >= 1 /\ Len(line) > n + sp /\ line[n + sp + 1] = ":"
       THEN SubSeq(line, 1, n)
       ELSE IF n >= 2 /\ sp >= 2 /\ (Len(line) > n + sp \/ sp >= 3)
       THEN SubSeq(line, 1, n)
       ELSE NoMatch

TextLine == [k |-> "text"]        \* a line no test of the parser takes

\* Variant of TopLineOf: any mention of commands opens the section.
TopLineOfLoose(line) ==
    IF Includes(ToLowerCase(line), SubSeq(AvailableCommands, 11, 18))
    THEN TopMarkerLine
    ELSE IF TopCommandMatch(line) # NoMatch THEN CmdLine(TopCommandMatch(line))
    ELSE TextLine

\* A line as the loop of parseHelpOutput takes it.
TopLineOf(line) ==
    IF Includes(line, AvailableCommands) THEN TopMarkerLine
    ELSE IF TopCommandMatch(line) # NoMatch THEN CmdLine(TopCommandMatch(line))
    ELSE TextLine

\* Variant of SubLineOf: the section header is compared as it is written.
SubLineOfExact(line) ==
    IF StartsWith(line, SubcommandsColon) THEN SubMarkerLine
    ELSE IF SubCommandMatch(line) # NoMatch THEN CmdLine(SubCommandMatch(line))
    ELSE TextLine

\* A line as the loop of parseSubcommands takes it.
SubLineOf(line) ==
    IF StartsWith(ToLowerCase(line), SubcommandsColon) THEN SubMarkerLine
    ELSE IF SubCommandMatch(line) # NoMatch THEN CmdLine(SubCommandMatch(line))
    ELSE TextLine

\* parseHelpOutput(helpText), helpText a string
ParseHelpOutputText(helpText) ==
    LET lines == CleanLines(helpText)
    IN ParseHelpLines([j \in 1..Len(lines) |-> TopLineOf(lines[j])], FALSE)

\* lines.length <= 3 && lines.some(line => line.includes(parentCommand)
\*     && line.includes('-') && !line.includes('--'))
HasSimpleFormatText(lines, parentCommand) ==
    /\ Len(lines) <= 3
    /\ \E j \in 1..Len(lines) :
           /\ Includes(lines[j], parentCommand)
           /\ Includes(lines[j], <<"-">>)
           /\ ~Includes(lines[j], <<"-", "-">>)

\* parseSubcommands(helpText, parentCommand), helpText a string
ParseSubcommandsText(helpText, parentCommand) ==
    LET lines == CleanLines(helpText)
    IN IF HasSimpleFormatText(lines, parentCommand) THEN << >>
       ELSE ParseSubLines([j \in 1..Len(lines) |-> SubLineOf(lines[j])],
                          parentCommand, FALSE)

\* Length of the match of argPattern that begins at position i of s, or 0:
\* /(<[^>]+>|\[<[^\]>]+>\]|\[[^\]<>]+\])/
ArgMatchLength(s, i) ==
    IF s[i] = "<"
    THEN LET n == RunLengthNot(s, i + 1, {">"})
         IN IF n >= 1 /\ i + n + 1 <= Len(s) THEN n + 2 ELSE 0
    ELSE IF s[i] = "[" /\ i < Len(s) /\ s[i + 1] = "<"
    THEN LET n == RunLengthNot(s, i + 2, {"]", ">"})
         IN IF /\ n >= 1
               /\ i + n + 3 <= Len(s)
               /\ s[i + n + 2] = ">"
               /\ s[i + n + 3] = "]"
            THEN n + 4 ELSE 0
    ELSE IF s[i] = "["
    THEN LET n == RunLengthNot(s, i + 1, {"]", "<", ">"})
         IN IF n >= 1 /\ i + n + 1 <= Len(s) /\ s[i + n + 1] = "]"
            THEN n + 2 ELSE 0
    ELSE 0

RECURSIVE ArgMatches(_, _)
\* helpText.match(argPattern), from position i on
ArgMatches(s, i) ==
    IF i > Len(s) THEN << >>
    ELSE IF ArgMatchLength(s, i) > 0
    THEN <<SubSeq(s, i, i + ArgMatchLength(s, i) - 1)>>
             \o ArgMatches(s, i + ArgMatchLength(s, i))
    ELSE ArgMatches(s, i + 1)

\* match.replace(/[<>\[\]]/g, '')
CleanArg(match) == SelectSeq(match, LAMBDA c : c \notin {"<", ">", "[", "]"})

\* Variant of Required: every argument is mandatory.
RequiredAlways(match) == TRUE

\* match.startsWith('<')
Required(match) == Head(match) = "<"

\* The object parseArguments pushes for a match.
ArgNode(match) ==
    [id |-> CleanArg(match),
     name |-> CleanArg(match),
     required |-> Required(match)]

RECURSIVE PushUnseen(_, _)
\* matches.forEach(...): a match whose cleaned text was seen is skipped.
PushUnseen(matches, seen) ==
    IF matches = << >> THEN << >>
    ELSE IF CleanArg(Head(matches)) \in seen
    THEN PushUnseen(Tail(matches), seen)
    ELSE <<ArgNode(Head(matches))>>
             \o PushUnseen(Tail(matches), seen \cup {CleanArg(Head(matches))})

\* parseArguments(helpText)
ParseArguments(helpText) == PushUnseen(ArgMatches(helpText, 1), {})

(***************************************************************************)
(* The text of the lines the shell writes.                                 *)
(***************************************************************************)
Log == <<"l", "o", "g">>
Device == <<"d", "e", "v", "i", "c", "e">>
Backend == <<"b", "a", "c", "k", "e", "n", "d">>
Enable == <<"e", "n", "a", "b", "l", "e">>
Bypass == <<"b", "y", "p", "a", "s", "s">>

\* The description the shell prints for a command.
Description(n) ==
    CASE n = Log -> <<"L", "o", "g", "g", "i", "n", "g", " ", "c", "o", "m",
            "m", "a", "n", "d", "s">>
      [] n = Device -> <<"D", "e", "v", "i", "c", "e", " ", "c", "o", "m",
              "m", "a", "n", "d", "s">>
      [] n = Backend -> <<"E", "n", "a", "b", "l", "e", " ", "b", "a", "c",
              "k", "e", "n", "d", " ", "l", "o", "g", "g", "i", "n", "g">>
      [] n = Enable -> <<"E", "n", "a", "b", "l", "e", " ", "l", "o", "g",
              "g", "i", "n", "g">>
      [] n = Bypass -> <<"B", "y", "p", "a", "s", "s", " ", "s", "h", "e",
              "l", "l">>
      [] OTHER -> <<"C", "o", "m", "m", "a", "n", "d", "s">>

SubcommandsHeader == <<"S", "u", "b", "c", "o", "m", "m", "a", "n", "d", "s",
        ":">>
\* The prompt, in green: ESC[1;32m before it and ESC[m behind it.
Prompt ==
    <<Esc, "[", "1", ";", "3", "2", "m">>
        \o <<"u", "a", "r", "t", ":", "~", "$", " ">> \o <<Esc, "[", "m">>

\* One line of output, without its newline; the prompt is coloured.
LineText(line) ==
    CASE line.k = "top_marker" -> AvailableCommands
      [] line.k = "sub_marker" -> SubcommandsHeader
      [] line.k = "prompt" -> Prompt
      [] line.k = "cmd" -> <<" ", " ">> \o line.n \o <<" ", ":", " ">> \o Description(line.n)
      [] line.k = "leaf" -> line.n \o <<" ", "-", " ">> \o Description(line.n)

RECURSIVE JoinLines(_)
\* The lines, each but the last followed by a newline.
JoinLines(lines) ==
    IF lines = << >> THEN << >>
    ELSE IF Len(lines) = 1 THEN LineText(Head(lines))
    ELSE LineText(Head(lines)) \o <<"\n">> \o JoinLines(Tail(lines))

(***************************************************************************)
(* JSON and the cache in localStorage.                                     *)
(***************************************************************************)
\* A subcommand whose parentCmd holds its parent object closes a cycle
\* through the parent's subcommands array.
HasCircularRef(cmds) ==
    \E c \in 1..Len(cmds) :
        /\ cmds[c].subcommands # NoArray
        /\ \E j \in 1..Len(cmds[c].subcommands) :
               cmds[c].subcommands[j].parentCmd # NoRef

\* JSON.stringify: throws a TypeError on a circular structure.
JsonStringify(obj) ==
    IF "commands" \in DOMAIN obj /\ HasCircularRef(obj.commands)
    THEN THROWN
    ELSE [json |-> obj]

GarbageText == [garbage |-> TRUE]

\* JSON.parse: throws a SyntaxError on text that is no JSON.
JsonParse(text) == IF text = GarbageText THEN THROWN ELSE text.json

CacheVersion == <<"2", ".", "0">>
LegacyVersion == <<"1", ".", "0">>

\* The object saveCachedCommands builds.
CacheObject(cmds, t) == [commands |-> cmds, lastScanned |-> t, version |-> CacheVersion]

\* saveCachedCommands(cmds).  this.commands already is cmds at
\* every call in the walk and in the waits, so commands' = cmds also when
\* JSON.stringify throws and the three assignments after it are skipped.
SaveCachedCommands(cmds) ==
    /\ commands' = cmds
    /\ IF JsonStringify(CacheObject(cmds, SessionTime)) = THROWN
       THEN UNCHANGED <<storage, commandsCache, lastScannedTime>>
       ELSE /\ storage' = JsonStringify(CacheObject(cmds, SessionTime))
            /\ commandsCache' = CacheObject(cmds, SessionTime)
            /\ lastScannedTime' = SessionTime

SaveThrows(cmds) == HasCircularRef(cmds)

\* Variant of LoadAccepts: only a cache of the current version is taken.
LoadAcceptsCurrent ==
    /\ storage # NoObject
    /\ JsonParse(storage) # THROWN
    /\ "version" \in DOMAIN JsonParse(storage)
    /\ "commands" \in DOMAIN JsonParse(storage)
    /\ JsonParse(storage).version = CacheVersion

\* Result of loadCachedCommands: TRUE when the cache was taken.
LoadAccepts ==
    /\ storage # NoObject
    /\ JsonParse(storage) # THROWN
    /\ "version" \in DOMAIN JsonParse(storage)
    /\ "commands" \in DOMAIN JsonParse(storage)

\* loadCachedCommands: commandsCache is assigned before the validation.
LoadCachedCommands ==
    /\ UNCHANGED storage
    /\ IF storage = NoObject \/ JsonParse(storage) = THROWN
       THEN UNCHANGED <<commandsCache, commands, lastScannedTime>>
       ELSE /\ commandsCache' = JsonParse(storage)
            /\ IF LoadAccepts
               THEN /\ commands' = JsonParse(storage).commands
                    /\ lastScannedTime' =
                           IF "lastScanned" \in DOMAIN JsonParse(storage)
                           THEN JsonParse(storage).lastScanned
                           ELSE NoTime
               ELSE UNCHANGED <<commands, lastScannedTime>>

(***************************************************************************)
(* Response framers: one call of checkCompletion.                          *)
(***************************************************************************)
TopStablePolls == 3
SubStablePolls == 3
MinPromptBuffer == 5

\* The timeout argument of the three calls, in milliseconds.
TopTimeout == 300
SubTimeout == 1200
ManualTimeout == 2000

\* lastDataLength = 0, noDataChangedCount = 0
InitialWait == [lastDataLength |-> 0, noDataChangedCount |-> 0]

\* The stability bookkeeping of a check that does not settle the promise.
StabilityStep(data, w) ==
    IF DataLength(data) = w.lastDataLength
    THEN [w EXCEPT !.noDataChangedCount = w.noDataChangedCount + 1]
    ELSE [lastDataLength |-> DataLength(data), noDataChangedCount |-> 0]

\* Variant of TopOutcome: stable data without commands counts as found.
TopOutcomeLenient(data, w, late) ==
    IF HasTopMarker(data) /\ Len(ParseHelpOutput(data)) > 0 THEN "found"
    ELSE IF DataLength(data) = w.lastDataLength
            /\ w.noDataChangedCount + 1 >= TopStablePolls THEN "found_stable"
    ELSE IF late THEN "timeout"
    ELSE "again"

\* One checkCompletion of waitForDiscoveryCompletion; late is
\* Date.now() - startTime > timeout.
TopOutcome(data, w, late) ==
    IF HasTopMarker(data) /\ Len(ParseHelpOutput(data)) > 0 THEN "found"
    ELSE IF HasTopMarker(data) /\ EndsWithPrompt(data)
            /\ Len(ParseHelpOutput(data)) > 0 THEN "found_prompt"
    ELSE IF DataLength(data) = w.lastDataLength
            /\ w.noDataChangedCount + 1 >= TopStablePolls
    THEN IF Len(ParseHelpOutput(data)) > 0 THEN "found_stable" ELSE "no_commands"
    ELSE IF late THEN "timeout"
    ELSE "again"

\* Variant of SubOutcome: no hard timeout.
SubOutcomeUnbounded(data, w, late) ==
    IF DataLength(data) > MinPromptBuffer /\ EndsWithPrompt(data) THEN "prompt"
    ELSE IF DataLength(data) = w.lastDataLength
            /\ w.noDataChangedCount + 1 >= SubStablePolls THEN "stable"
    ELSE "again"

\* One checkCompletion of waitForSubcommandDiscovery.
SubOutcome(data, w, late) ==
    IF DataLength(data) > MinPromptBuffer /\ EndsWithPrompt(data) THEN "prompt"
    ELSE IF DataLength(data) = w.lastDataLength
            /\ w.noDataChangedCount + 1 >= SubStablePolls THEN "stable"
    ELSE IF late THEN "timeout"
    ELSE "again"

(***************************************************************************)
(* Positions of the two async operations.                                  *)
(***************************************************************************)
ScanBlocked == {"idle", "top_wait", "paused", "sub_wait", "sub_delay"}
WalkBlocked == {"paused", "sub_wait", "sub_delay"}

\* No handler is running: user events, timers and messages are taken only here.
Quiescent == scanPc \in ScanBlocked

\* Variant of LockBusy: a lock check that never sees the lock.
LockNeverBusy == FALSE

\* if (this.discoveryLock) in scanCommands and discoverSubcommands
LockBusy == discoveryLock

\* Variant of ScanFinally: a finally block that keeps the lock.
ScanFinallyKeepsLock ==
    /\ loadingCommands' = FALSE
    /\ commandDiscoveryInProgress' = FALSE
    /\ discoveryLock' = discoveryLock

\* The finally block of scanCommands.
ScanFinally ==
    /\ loadingCommands' = FALSE
    /\ commandDiscoveryInProgress' = FALSE
    /\ discoveryLock' = FALSE

\* Variant of DeepCancelled: discoverDeep entered without the cancel check.
DeepNeverCancelled == FALSE

\* if (this.discoveryCancelRequested) return, first statement of discoverDeep
DeepCancelled == discoveryCancelRequested

\* Variant of LongScan: the 60-second check never asks.
LongScanNever(elapsed) == FALSE

\* !this.showDiscoveryConfirm && (Date.now() - this.discoveryStartTime > 60000)
LongScan(elapsed) == ~showDiscoveryConfirm /\ elapsed

\* Variant of PauseHolds: a pause loop that cancel does not end.
PauseHoldsOnCancel == discoveryPaused \/ discoveryCancelRequested

\* while (this.discoveryPaused && !this.discoveryCancelRequested)
PauseHolds == discoveryPaused /\ ~discoveryCancelRequested

\* Chunks of earlier responses still undelivered when a probe is written.
MaxLate == 1

\* Requests that write to the channel (scans past the cache, manual
\* discoveries, commands executed from the list) in one behaviour.
MaxDiscoveries == 2

Backlog(chunks) ==
    IF Len(chunks) <= MaxLate THEN chunks
    ELSE SubSeq(chunks, Len(chunks) - MaxLate + 1, Len(chunks))

\* sendDiscoveryCommand: writes only to an open socket, else does nothing.
\* sent is probesSent, or the empty sequence when the lock was just taken.
SendDiscoveryCommand(text, sent) ==
    IF wsOpen
    THEN /\ pending' = Backlog(pending) \o ShellResponse(text)
         /\ probesSent' = Append(sent, text)
    ELSE /\ pending' = pending
         /\ probesSent' = sent

\* The scan has returned: the probe buffer (reset before every wait), the
\* clock, the closure of its last wait and the history of the scan are no
\* longer read.
Returned ==
    /\ discoveryCollectedData' = << >>
    /\ over60' = FALSE
    /\ wait' = InitialWait
    /\ probesSent' = << >>
    /\ treeAtCancel' = << >>

\* An activation of discoverDeep or discoverSubcommands: its argument, the
\* subcommands parsed for it, the position of its loop over them, and
\* whether the object it walks under is still an element of this.commands.
Frame(node) == [cmd |-> node, subs |-> << >>, k |-> 0, live |-> TRUE]

TopFrame == stack[Len(stack)]

\* The outermost activation's command: topLevelCmd of discoverDeep.
RootLive == stack[1].live
RootName == stack[1].cmd.name

\* Variant of CmdName: the node's name alone.
CmdNameShort(node) == node.name

\* command.fullName || command.name
CmdName(node) == IF "fullName" \in DOMAIN node THEN node.fullName ELSE node.name

\* What localStorage may hold when the page is loaded: nothing, text that
\* is no JSON, an object without version, a legacy flat 1.0 cache, or a
\* cache this version saved.
StoredCommands == <<TopNode(<<"a">>), TopNode(<<"c">>)>>

InitialStorage ==
    {NoObject,
     GarbageText,
     [json |-> [commands |-> StoredCommands, lastScanned |-> StoredTime]],
     [json |-> [commands |-> StoredCommands, lastScanned |-> StoredTime,
                version |-> LegacyVersion]],
     [json |-> CacheObject(StoredCommands, StoredTime)]}

Init ==
    /\ connected = FALSE
    /\ wsOpen = FALSE
    /\ discoveryLock = FALSE
    /\ commandDiscoveryInProgress = FALSE
    /\ discoveryCollectedData = << >>
    /\ over60 = FALSE
    /\ showDiscoveryConfirm = FALSE
    /\ discoveryPaused = FALSE
    /\ discoveryCancelRequested = FALSE
    /\ commands = << >>
    /\ commandsCache = NoObject
    /\ lastScannedTime = NoTime
    /\ storage \in InitialStorage
    /\ loadingCommands = FALSE
    /\ showCommands = FALSE
    /\ statusMessageType = "info"
    /\ discoveringSubcommands = {}
    /\ scanPc = "idle"
    /\ scanI = 0
    /\ stack = << >>
    /\ manualPc = "idle"
    /\ manualCmd = 0
    /\ wait = InitialWait
    /\ pending = << >>
    /\ probesSent = << >>
    /\ treeAtCancel = << >>
    /\ discoveries = 0
    /\ parserInput = NoCall
    /\ parserOutput = NoCall
    /\ discoveryProgress = InitialProgress
    /\ activeSessionId = 1
    /\ otherSession = Closed(2)
    /\ scanSessionId = NoSession

conn == <<connected, wsOpen>>
flags == <<over60, showDiscoveryConfirm, discoveryPaused, discoveryCancelRequested>>
catalog == <<commands, commandsCache, lastScannedTime, storage>>
manual == <<manualPc, manualCmd>>
chan == <<pending, probesSent>>
walk == <<scanI, stack>>
parser == <<parserInput, parserOutput>>
switching == <<activeSessionId, otherSession, scanSessionId>>

\* The timeout the wait in progress was called with.
WaitTimeout ==
    IF scanPc = "top_wait" THEN TopTimeout
    ELSE IF scanPc = "sub_wait" THEN SubTimeout
    ELSE ManualTimeout

(***************************************************************************)
(* scanCommands(force)                                                     *)
(***************************************************************************)
\* Variant of ScanNotConnected: the lock is taken before the connection is
\* looked at.
ScanNotConnectedLocking ==
    /\ Quiescent
    /\ ~connected
    /\ statusMessageType' = "error"
    /\ discoveryLock' = TRUE
    /\ UNCHANGED <<parser, discoveryProgress, switching,
                   conn, discoveries, commandDiscoveryInProgress,
                   discoveryCollectedData, flags, catalog, loadingCommands,
                   showCommands, discoveringSubcommands, scanPc, walk, manual,
                   wait, chan, treeAtCancel>>

\* if (!this.connected) { showStatus(..., 'error'); return; }
ScanNotConnected ==
    /\ Quiescent
    /\ ~connected
    /\ statusMessageType' = "error"
    /\ UNCHANGED <<parser, discoveryProgress, switching,
                   conn, discoveries, discoveryLock, commandDiscoveryInProgress,
                   discoveryCollectedData, flags, catalog, loadingCommands,
                   showCommands, discoveringSubcommands, scanPc, walk, manual,
                   wait, chan, treeAtCancel>>

\* Variant of ScanRejected: the rejected request empties the probe buffer.
ScanRejectedClearing ==
    /\ Quiescent
    /\ connected
    /\ LockBusy
    /\ statusMessageType' = "error"
    /\ discoveryCollectedData' = << >>
    /\ UNCHANGED <<parser, discoveryProgress, switching,
                   conn, discoveries, discoveryLock, commandDiscoveryInProgress,
                   flags, catalog, loadingCommands,
                   showCommands, discoveringSubcommands, scanPc, walk, manual,
                   wait, chan, treeAtCancel>>

ScanRejected ==
    /\ Quiescent
    /\ connected
    /\ LockBusy
    /\ statusMessageType' = "error"
    /\ UNCHANGED <<parser, discoveryProgress, switching,
                   conn, discoveries, discoveryLock, commandDiscoveryInProgress,
                   discoveryCollectedData, flags, catalog, loadingCommands,
                   showCommands, discoveringSubcommands, scanPc, walk, manual,
                   wait, chan, treeAtCancel>>

\* The lock is taken and released inside the handler; the finally block
\* runs on this return too.
ScanCacheHit ==
    /\ Quiescent
    /\ connected
    /\ ~LockBusy
    /\ scanPc = "idle"
    /\ LoadAccepts
    /\ LoadCachedCommands
    /\ statusMessageType' = "success"
    /\ showCommands' = TRUE
    /\ ScanFinally
    /\ UNCHANGED <<parser, discoveryProgress, switching,
                   conn, discoveries, discoveryCollectedData, flags, discoveringSubcommands,
                   scanPc, walk, manual, wait, chan, treeAtCancel>>

ScanStart(force) ==
    /\ Quiescent
    /\ connected
    /\ ~LockBusy
    /\ scanPc = "idle"
    /\ discoveries < MaxDiscoveries
    /\ force \/ ~LoadAccepts
    /\ discoveryLock' = TRUE
    /\ loadingCommands' = TRUE
    /\ statusMessageType' = "info"
    /\ IF force THEN UNCHANGED catalog ELSE LoadCachedCommands
    /\ commandDiscoveryInProgress' = TRUE
    /\ discoveryCollectedData' = << >>
    /\ over60' = FALSE
    /\ showDiscoveryConfirm' = FALSE
    /\ discoveryCancelRequested' = FALSE
    /\ discoveryPaused' = FALSE
    /\ SendDiscoveryCommand(HelpProbe, << >>)
    /\ wait' = StabilityStep(<< >>, InitialWait)
    /\ scanPc' = "top_wait"
    /\ scanI' = 0
    /\ stack' = << >>
    /\ treeAtCancel' = << >>
    /\ discoveries' = discoveries + 1
    /\ scanSessionId' = activeSessionId
    /\ UNCHANGED <<parser, discoveryProgress, activeSessionId, otherSession,
                   conn, showCommands, discoveringSubcommands, manual>>

\* catch and finally of scanCommands after waitForDiscoveryCompletion rejects
TopPollFail(late) ==
    /\ Quiescent
    /\ scanPc = "top_wait"
    /\ TopOutcome(discoveryCollectedData, wait, late) \in {"no_commands", "timeout"}
    /\ statusMessageType' = "error"
    /\ ScanFinally
    /\ scanPc' = "idle"
    /\ Returned
    /\ UNCHANGED <<parser, discoveryProgress, switching,
                   conn, discoveries, showDiscoveryConfirm,
                   discoveryPaused, discoveryCancelRequested, catalog,
                   showCommands, discoveringSubcommands, walk, manual, pending>>

TopPollAgain(late) ==
    /\ Quiescent
    /\ scanPc = "top_wait"
    /\ TopOutcome(discoveryCollectedData, wait, late) = "again"
    /\ wait' = StabilityStep(discoveryCollectedData, wait)
    /\ UNCHANGED <<parser, discoveryProgress, switching,
                   conn, discoveries, discoveryLock, commandDiscoveryInProgress,
                   discoveryCollectedData, flags, catalog, loadingCommands,
                   showCommands, statusMessageType, discoveringSubcommands, scanPc,
                   walk, manual, chan, treeAtCancel>>

\* The promise resolves; scanCommands goes on into discoverAllSubcommands.
TopPollFound(late) ==
    /\ Quiescent
    /\ scanPc = "top_wait"
    /\ TopOutcome(discoveryCollectedData, wait, late)
           \in {"found", "found_prompt", "found_stable"}
    /\ SaveCachedCommands(ParseHelpOutput(discoveryCollectedData))
    /\ commandDiscoveryInProgress' =
           IF TopOutcome(discoveryCollectedData, wait, late) = "found_stable"
           THEN commandDiscoveryInProgress ELSE FALSE
    /\ statusMessageType' = "success"
    /\ showCommands' = TRUE
    /\ scanI' = 1
    /\ scanPc' = "all_loop"
    /\ wait' = InitialWait
    /\ UNCHANGED <<parser, discoveryProgress, switching,
                   conn, discoveries, discoveryLock, discoveryCollectedData, flags,
                   loadingCommands, discoveringSubcommands, stack, manual,
                   chan, treeAtCancel>>

(***************************************************************************)
(* discoverAllSubcommands and discoverDeep                                 *)
(***************************************************************************)
\* Loop head of discoverAllSubcommands; when the loop ends scanCommands
\* reports and runs its finally block.
AllLoop ==
    /\ scanPc = "all_loop"
    /\ IF scanI > Len(commands) \/ discoveryCancelRequested
       THEN /\ statusMessageType' =
                   IF discoveryCancelRequested THEN "info" ELSE "success"
            /\ ScanFinally
            /\ scanPc' = "idle"
            /\ scanI' = 0
            /\ stack' = << >>
            /\ Returned
       ELSE /\ stack' = <<Frame(commands[scanI])>>
            /\ scanPc' = "deep_entry"
            /\ UNCHANGED <<statusMessageType, loadingCommands,
                           commandDiscoveryInProgress, discoveryLock, scanI,
                           discoveryCollectedData, over60, wait, probesSent,
                           treeAtCancel>>
    /\ UNCHANGED <<parser, discoveryProgress, switching,
                   conn, discoveries, showDiscoveryConfirm,
                   discoveryPaused, discoveryCancelRequested, catalog,
                   showCommands, discoveringSubcommands, manual, pending>>

\* discoverSubcommandsInternal up to its first await, entered from discoverDeep
StartProbe ==
    /\ discoveringSubcommands' = discoveringSubcommands \cup {TopFrame.cmd.id}
    /\ commandDiscoveryInProgress' = TRUE
    /\ discoveryCollectedData' = << >>
    /\ SendDiscoveryCommand(Trim(CmdName(TopFrame.cmd)) \o HelpSuffix, probesSent)
    /\ wait' = StabilityStep(<< >>, InitialWait)
    /\ scanPc' = "sub_wait"

\* Entry of discoverDeep: the cancel check, then the 60-second check.  The
\* clock is read here and nowhere else: elapsed tells whether Date.now() has
\* passed discoveryStartTime + 60000, and once it has it stays so.
DeepEntry(elapsed) ==
    /\ scanPc = "deep_entry"
    /\ over60' = IF DeepCancelled \/ showDiscoveryConfirm THEN over60
               ELSE over60 \/ elapsed
    /\ IF DeepCancelled
       THEN /\ scanPc' = "deep_return"
            /\ UNCHANGED <<discoveringSubcommands, commandDiscoveryInProgress,
                           discoveryCollectedData, wait, chan,
                           showDiscoveryConfirm, discoveryPaused>>
       ELSE IF LongScan(over60')
       THEN /\ showDiscoveryConfirm' = TRUE
            /\ discoveryPaused' = TRUE
            /\ scanPc' = "paused"
            /\ UNCHANGED <<discoveringSubcommands, commandDiscoveryInProgress,
                           discoveryCollectedData, wait, chan>>
       ELSE /\ StartProbe
            /\ UNCHANGED <<showDiscoveryConfirm, discoveryPaused>>
    /\ UNCHANGED <<parser, discoveryProgress, switching,
                   conn, discoveries, discoveryLock, discoveryCancelRequested, catalog,
                   loadingCommands, showCommands, statusMessageType, walk, manual,
                   treeAtCancel>>

\* The 500 ms timer of the pause loop fires.
PauseTick ==
    /\ Quiescent
    /\ scanPc = "paused"
    /\ IF PauseHolds
       THEN UNCHANGED <<scanPc, discoveringSubcommands, commandDiscoveryInProgress,
                        discoveryCollectedData, wait, chan>>
       ELSE IF discoveryCancelRequested
       THEN /\ scanPc' = "deep_return"
            /\ UNCHANGED <<discoveringSubcommands, commandDiscoveryInProgress,
                           discoveryCollectedData, wait, chan>>
       ELSE StartProbe
    /\ UNCHANGED <<parser, discoveryProgress, switching,
                   conn, discoveries, discoveryLock, flags, catalog, loadingCommands, showCommands,
                   statusMessageType, walk, manual, treeAtCancel>>

SubPollAgain(late) ==
    /\ Quiescent
    /\ scanPc = "sub_wait"
    /\ SubOutcome(discoveryCollectedData, wait, late) = "again"
    /\ wait' = StabilityStep(discoveryCollectedData, wait)
    /\ UNCHANGED <<parser, discoveryProgress, switching,
                   conn, discoveries, discoveryLock, commandDiscoveryInProgress,
                   discoveryCollectedData, flags, catalog, loadingCommands,
                   showCommands, statusMessageType, discoveringSubcommands, scanPc,
                   walk, manual, chan, treeAtCancel>>

\* The wait resolves; the buffer is parsed and the 10 ms delay begins.  The
\* closure of the wait is gone with it.
SubPollDone(late) ==
    /\ Quiescent
    /\ scanPc = "sub_wait"
    /\ SubOutcome(discoveryCollectedData, wait, late) # "again"
    /\ stack' = [stack EXCEPT ![Len(stack)].subs =
                     ParseSubcommands(discoveryCollectedData,
                                      Trim(CmdName(TopFrame.cmd)))]
    /\ scanPc' = "sub_delay"
    /\ wait' = InitialWait
    /\ UNCHANGED <<parser, discoveryProgress, switching,
                   conn, discoveries, discoveryLock, commandDiscoveryInProgress,
                   discoveryCollectedData, flags, catalog, loadingCommands,
                   showCommands, statusMessageType, discoveringSubcommands, scanI,
                   manual, chan, treeAtCancel>>

\* The 10 ms timer fires: discoverSubcommandsInternal returns into discoverDeep.
SubDelayDone ==
    /\ Quiescent
    /\ scanPc = "sub_delay"
    /\ commandDiscoveryInProgress' = FALSE
    /\ IF Len(TopFrame.subs) > 0
       THEN /\ commands' =
                   IF RootLive /\ commands[scanI].subcommands = NoArray
                   THEN [commands EXCEPT ![scanI].subcommands = << >>]
                   ELSE commands
            /\ stack' = [stack EXCEPT ![Len(stack)].k = 1]
            /\ scanPc' = "attach_loop"
            /\ UNCHANGED discoveringSubcommands
       ELSE /\ discoveringSubcommands' = discoveringSubcommands \ {TopFrame.cmd.id}
            /\ scanPc' = "deep_return"
            /\ UNCHANGED <<commands, stack>>
    /\ UNCHANGED <<parser, discoveryProgress, switching,
                   conn, discoveries, discoveryLock, discoveryCollectedData, flags, commandsCache,
                   lastScannedTime, storage, loadingCommands, showCommands,
                   statusMessageType, scanI, manual, wait, chan, treeAtCancel>>

\* Variant of Linked: the node keeps the name it has in the listing.
LinkedUnrenamed(sub, command, topLevelName) ==
    [sub EXCEPT !.parentCmd = Trim(CmdName(command))]

\* sub after "sub.parentCmd = command" and the renaming relative to the
\* top-level command; the parent object is referred to by its trimmed name.
Linked(sub, command, topLevelName) ==
    [sub EXCEPT
        !.parentCmd = Trim(CmdName(command)),
        !.name = IF StartsWith(sub.fullName, topLevelName \o SP)
                 THEN Trim(Substring(sub.fullName, Len(topLevelName) + 1))
                 ELSE sub.name]

\* topLevelCmd.subcommands.find(s => s.fullName === sub.fullName)
Found(subcommands, sub) ==
    \E j \in 1..Len(subcommands) : subcommands[j].fullName = sub.fullName

\* Variant of Push: the list is replaced by the new node.
PushAlone(subcommands, sub) == <<sub>>

\* if (!topLevelCmd.subcommands.find(...)) topLevelCmd.subcommands.push(sub)
Push(subcommands, sub) ==
    IF Found(subcommands, sub) THEN subcommands ELSE Append(subcommands, sub)

\* One iteration of "for (const sub of subcommands)" up to the recursive call.
AttachStep ==
    /\ scanPc = "attach_loop"
    /\ TopFrame.k <= Len(TopFrame.subs)
    /\ LET sub == Linked(TopFrame.subs[TopFrame.k], TopFrame.cmd, RootName)
       IN /\ commands' =
                 IF RootLive
                 THEN [commands EXCEPT ![scanI].subcommands = Push(@, sub)]
                 ELSE commands
          /\ stack' = Append(stack, Frame(sub))
    /\ scanPc' = "deep_entry"
    /\ UNCHANGED <<parser, discoveryProgress, switching,
                   conn, discoveries, discoveryLock, commandDiscoveryInProgress,
                   discoveryCollectedData, flags, commandsCache, lastScannedTime,
                   storage, loadingCommands, showCommands, statusMessageType,
                   discoveringSubcommands, scanI, manual, wait, chan, treeAtCancel>>

\* After the loop: the top-level command is marked and the cache saved; an
\* exception of the save is caught and logged by discoverDeep.
AttachFinish ==
    /\ scanPc = "attach_loop"
    /\ TopFrame.k > Len(TopFrame.subs)
    /\ SaveCachedCommands(IF RootLive
                          THEN [commands EXCEPT ![scanI].hasSubcommands = "true"]
                          ELSE commands)
    /\ discoveringSubcommands' = discoveringSubcommands \ {TopFrame.cmd.id}
    /\ scanPc' = "deep_return"
    /\ UNCHANGED <<parser, discoveryProgress, switching,
                   conn, discoveries, discoveryLock, commandDiscoveryInProgress,
                   discoveryCollectedData, flags, loadingCommands, showCommands,
                   statusMessageType, walk, manual, wait, chan, treeAtCancel>>

\* discoverDeep returns to its caller: the loop of discoverDeep one level
\* up, or the loop of discoverAllSubcommands.
DeepReturn ==
    /\ scanPc = "deep_return"
    /\ IF Len(stack) = 1
       THEN /\ stack' = << >>
            /\ scanI' = scanI + 1
            /\ scanPc' = "all_loop"
       ELSE /\ stack' = [SubSeq(stack, 1, Len(stack) - 1)
                            EXCEPT ![Len(stack) - 1].k = @ + 1]
            /\ scanPc' = "attach_loop"
            /\ UNCHANGED scanI
    /\ UNCHANGED <<parser, discoveryProgress, switching,
                   conn, discoveries, discoveryLock, commandDiscoveryInProgress,
                   discoveryCollectedData, flags, catalog, loadingCommands,
                   showCommands, statusMessageType, discoveringSubcommands, manual,
                   wait, chan, treeAtCancel>>

(***************************************************************************)
(* discoverSubcommands(command), for a command of the list                 *)
(***************************************************************************)
ManualNotConnected ==
    /\ Quiescent
    /\ ~connected
    /\ commands # << >>
    /\ statusMessageType' = "error"
    /\ UNCHANGED <<parser, discoveryProgress, switching,
                   conn, discoveries, discoveryLock, commandDiscoveryInProgress,
                   discoveryCollectedData, flags, catalog, loadingCommands,
                   showCommands, discoveringSubcommands, scanPc, walk, manual,
                   wait, chan, treeAtCancel>>

ManualRejected ==
    /\ Quiescent
    /\ connected
    /\ commands # << >>
    /\ LockBusy
    /\ statusMessageType' = "error"
    /\ UNCHANGED <<parser, discoveryProgress, switching,
                   conn, discoveries, discoveryLock, commandDiscoveryInProgress,
                   discoveryCollectedData, flags, catalog, loadingCommands,
                   showCommands, discoveringSubcommands, scanPc, walk, manual,
                   wait, chan, treeAtCancel>>

ManualStart(c) ==
    /\ Quiescent
    /\ connected
    /\ ~LockBusy
    /\ manualPc = "idle"
    /\ discoveries < MaxDiscoveries
    /\ discoveryLock' = TRUE
    /\ commandDiscoveryInProgress' = TRUE
    /\ discoveryCollectedData' = << >>
    /\ SendDiscoveryCommand(commands[c].name \o HelpSuffix, << >>)
    /\ wait' = StabilityStep(<< >>, InitialWait)
    /\ manualPc' = "wait"
    /\ manualCmd' = c
    /\ stack' = <<Frame(commands[c])>>
    /\ discoveries' = discoveries + 1
    /\ UNCHANGED <<parser, discoveryProgress, switching,
                   conn, flags, catalog, loadingCommands, showCommands,
                   statusMessageType, discoveringSubcommands, scanPc, scanI,
                   treeAtCancel>>

ManualPollAgain(late) ==
    /\ Quiescent
    /\ manualPc = "wait"
    /\ SubOutcome(discoveryCollectedData, wait, late) = "again"
    /\ wait' = StabilityStep(discoveryCollectedData, wait)
    /\ UNCHANGED <<parser, discoveryProgress, switching,
                   conn, discoveries, discoveryLock, commandDiscoveryInProgress,
                   discoveryCollectedData, flags, catalog, loadingCommands,
                   showCommands, statusMessageType, discoveringSubcommands, scanPc,
                   walk, manual, chan, treeAtCancel>>

\* this.commands.findIndex(c => c.id === command.id), 1-based; 0 for -1
FindIndex(cmds, id) ==
    IF \E j \in 1..Len(cmds) : cmds[j].id = id
    THEN CHOOSE j \in 1..Len(cmds) :
             cmds[j].id = id /\ \A h \in 1..(j - 1) : cmds[h].id # id
    ELSE 0

\* The wait resolves: the rest of discoverSubcommands, with catch and finally.
ManualPollDone(late) ==
    /\ Quiescent
    /\ manualPc = "wait"
    /\ SubOutcome(discoveryCollectedData, wait, late) # "again"
    /\ LET command == TopFrame.cmd
           subcommands == ParseSubcommands(discoveryCollectedData, command.name)
           updated == [command EXCEPT !.subcommands = subcommands,
                                      !.hasSubcommands = "true"]
           mutated == IF RootLive THEN [commands EXCEPT ![manualCmd] = updated]
                      ELSE commands
           cmdIndex == FindIndex(commands, command.id)
           replaced == IF cmdIndex # 0 THEN [mutated EXCEPT ![cmdIndex] = updated]
                       ELSE mutated
       IN IF Len(subcommands) > 0
          THEN /\ SaveCachedCommands(replaced)
               /\ statusMessageType' =
                      IF SaveThrows(replaced) THEN "error" ELSE "success"
          ELSE /\ commands' =
                      IF RootLive
                      THEN [commands EXCEPT ![manualCmd].hasSubcommands = "false"]
                      ELSE commands
               /\ statusMessageType' = "info"
               /\ UNCHANGED <<commandsCache, lastScannedTime, storage>>
    /\ commandDiscoveryInProgress' = FALSE
    /\ discoveryLock' = FALSE
    /\ manualPc' = "idle"
    /\ manualCmd' = 0
    /\ stack' = << >>
    /\ wait' = InitialWait
    /\ probesSent' = << >>
    /\ discoveryCollectedData' = << >>
    /\ UNCHANGED <<parser, discoveryProgress, switching,
                   conn, discoveries, flags, loadingCommands,
                   showCommands, discoveringSubcommands, scanPc, scanI, pending,
                   treeAtCancel>>

(***************************************************************************)
(* The user's buttons, the clock, the connection and the shell's output    *)
(***************************************************************************)
\* Variant of ContinueDiscovery: the dialog is closed and the pause is left on.
ContinueDiscoveryStillPaused ==
    /\ Quiescent
    /\ discoveryLock
    /\ showDiscoveryConfirm' = FALSE
    /\ UNCHANGED <<parser, discoveryProgress, switching,
                   conn, discoveries, discoveryLock, commandDiscoveryInProgress,
                   discoveryCollectedData, over60, discoveryPaused,
                   discoveryCancelRequested,
                   catalog, loadingCommands, showCommands, statusMessageType,
                   discoveringSubcommands, scanPc, walk, manual, wait, chan,
                   treeAtCancel>>

ContinueDiscovery ==
    /\ Quiescent
    /\ discoveryLock
    /\ showDiscoveryConfirm' = FALSE
    /\ discoveryPaused' = FALSE
    /\ UNCHANGED <<parser, discoveryProgress, switching,
                   conn, discoveries, discoveryLock, commandDiscoveryInProgress,
                   discoveryCollectedData, over60, discoveryCancelRequested,
                   catalog, loadingCommands, showCommands, statusMessageType,
                   discoveringSubcommands, scanPc, walk, manual, wait, chan,
                   treeAtCancel>>

CancelDiscovery ==
    /\ Quiescent
    /\ discoveryLock
    /\ discoveryCancelRequested' = TRUE
    /\ discoveryPaused' = FALSE
    /\ showDiscoveryConfirm' = FALSE
    /\ treeAtCancel' = IF scanPc \in WalkBlocked THEN commands ELSE treeAtCancel
    /\ UNCHANGED <<parser, discoveryProgress, switching,
                   conn, discoveries, discoveryLock, commandDiscoveryInProgress,
                   discoveryCollectedData, over60, catalog, loadingCommands,
                   showCommands, statusMessageType, discoveringSubcommands, scanPc,
                   walk, manual, wait, chan>>

\* connect() succeeds: a new session becomes the active one; its socket is
\* created on the next tick and opens later.
Connect ==
    /\ Quiescent
    /\ ~connected
    /\ connected' = TRUE
    /\ wsOpen' = FALSE
    /\ pending' = << >>
    /\ statusMessageType' = "success"
    /\ UNCHANGED <<parser, discoveryProgress, switching,
                   discoveries, discoveryLock, commandDiscoveryInProgress,
                   discoveryCollectedData, flags, catalog, loadingCommands,
                   showCommands, discoveringSubcommands, scanPc,
                   walk, manual, wait, probesSent, treeAtCancel>>

\* The socket connectWebSocket created reaches readyState OPEN.
WsOpens ==
    /\ Quiescent
    /\ connected
    /\ ~wsOpen
    /\ wsOpen' = TRUE
    /\ UNCHANGED <<parser, discoveryProgress, switching,
                   connected, discoveries, discoveryLock,
                   commandDiscoveryInProgress, discoveryCollectedData, flags,
                   catalog, loadingCommands, showCommands, statusMessageType,
                   discoveringSubcommands, scanPc, walk, manual, wait, chan,
                   treeAtCancel>>

\* disconnect(): the socket is closed and the session marked disconnected.
Disconnect ==
    /\ Quiescent
    /\ connected
    /\ connected' = FALSE
    /\ wsOpen' = FALSE
    /\ pending' = << >>
    /\ statusMessageType' = "info"
    /\ UNCHANGED <<parser, discoveryProgress, switching,
                   discoveries, discoveryLock, commandDiscoveryInProgress,
                   discoveryCollectedData, flags, catalog, loadingCommands,
                   showCommands, discoveringSubcommands, scanPc,
                   walk, manual, wait, probesSent, treeAtCancel>>

\* session.ws.onmessage for the active session: one chunk arrives.
DeviceData ==
    /\ Quiescent
    /\ wsOpen
    /\ pending # << >>
    /\ pending' = Tail(pending)
    /\ discoveryCollectedData' =
           IF commandDiscoveryInProgress
           THEN discoveryCollectedData \o Head(pending)
           ELSE discoveryCollectedData
    /\ UNCHANGED <<parser, discoveryProgress, switching,
                   conn, discoveries, discoveryLock, commandDiscoveryInProgress, flags, catalog,
                   loadingCommands, showCommands, statusMessageType,
                   discoveringSubcommands, scanPc, walk, manual, wait, probesSent,
                   treeAtCancel>>

\* switchSession(sessionId) for the other session of this.sessions: the
\* getter ws and this.connected now read that session; the lock, the flags
\* and the buffer of a discovery in progress are not looked at.
SwitchSession ==
    /\ Quiescent
    /\ activeSessionId' = otherSession.id
    /\ otherSession' = [id |-> activeSessionId, connected |-> connected,
                        wsOpen |-> wsOpen, pending |-> pending]
    /\ connected' = otherSession.connected
    /\ wsOpen' = otherSession.wsOpen
    /\ pending' = otherSession.pending
    /\ UNCHANGED <<parser, discoveryProgress, scanSessionId, discoveries,
                   discoveryLock, commandDiscoveryInProgress,
                   discoveryCollectedData, flags, catalog, loadingCommands,
                   showCommands, statusMessageType, discoveringSubcommands,
                   scanPc, walk, manual, wait, probesSent, treeAtCancel>>

\* session.ws.onmessage of the session that is not the active one: the chunk
\* goes to that session's terminal and is not collected.
OtherSessionData ==
    /\ Quiescent
    /\ otherSession.wsOpen
    /\ otherSession.pending # << >>
    /\ otherSession' = [otherSession EXCEPT !.pending = Tail(@)]
    /\ UNCHANGED <<parser, discoveryProgress, activeSessionId, scanSessionId,
                   conn, discoveries, discoveryLock,
                   commandDiscoveryInProgress, discoveryCollectedData, flags,
                   catalog, loadingCommands, showCommands, statusMessageType,
                   discoveringSubcommands, scanPc, walk, manual, wait, chan,
                   treeAtCancel>>

(***************************************************************************)
(* Operations of the command list outside discovery                        *)
(***************************************************************************)
\* executeCommand(command) for a command of the list, without arguments: the
\* line is written to the socket if it is open, and the shell prints the
\* command's output and its prompt.
ExecuteCommand(c) ==
    /\ Quiescent
    /\ IF wsOpen
       THEN /\ discoveries < MaxDiscoveries
            /\ discoveries' = discoveries + 1
            /\ pending' = Append(pending, <<OutputLine, PromptLine>>)
            /\ statusMessageType' = "success"
       ELSE /\ pending' = pending
            /\ statusMessageType' = "error"
            /\ UNCHANGED discoveries
    /\ UNCHANGED <<parser, discoveryProgress, switching,
                   conn, discoveryLock, commandDiscoveryInProgress,
                   discoveryCollectedData, flags, catalog, loadingCommands,
                   showCommands, discoveringSubcommands, scanPc, walk, manual,
                   wait, probesSent, treeAtCancel>>

\* The objects the running discovery holds are no longer elements of
\* this.commands once the array has been replaced.
Detached(frames) ==
    IF frames = << >> THEN frames ELSE [frames EXCEPT ![1].live = FALSE]

\* A node as an exported file holds it after a check that found nothing.
CheckedNode(n) == [TopNode(n) EXCEPT !.hasSubcommands = "false"]

\* Files the user may pick: an export of a checked command list, and a JSON
\* file without a commands array.
ImportFiles ==
    {[commands |-> <<CheckedNode(<<"a">>), CheckedNode(<<"c">>)>>],
     [other |-> TRUE]}

\* reader.onload of importCommands(file)
ImportCommands(data) ==
    /\ Quiescent
    /\ IF "commands" \in DOMAIN data
       THEN /\ SaveCachedCommands(data.commands)
            /\ statusMessageType' = "success"
            /\ stack' = Detached(stack)
       ELSE /\ statusMessageType' = "error"
            /\ UNCHANGED <<catalog, stack>>
    /\ UNCHANGED <<parser, discoveryProgress, switching,
                   conn, discoveries, discoveryLock, commandDiscoveryInProgress,
                   discoveryCollectedData, flags, loadingCommands, showCommands,
                   discoveringSubcommands, scanPc, scanI, manual, wait, chan,
                   treeAtCancel>>

\* exportCommands(): the object written to the file.
ExportCommands ==
    IF commandsCache # NoObject
    THEN commandsCache
    ELSE [commands |-> commands, lastScanned |-> SessionTime]

\* clearCommandsCache()
ClearCommandsCache ==
    /\ Quiescent
    /\ storage' = NoObject
    /\ commands' = << >>
    /\ commandsCache' = NoObject
    /\ lastScannedTime' = NoTime
    /\ statusMessageType' = "info"
    /\ stack' = Detached(stack)
    /\ UNCHANGED <<parser, discoveryProgress, switching,
                   conn, discoveries, discoveryLock, commandDiscoveryInProgress,
                   discoveryCollectedData, flags, loadingCommands, showCommands,
                   discoveringSubcommands, scanPc, scanI, manual, wait, chan,
                   treeAtCancel>>

Next ==
    \/ ScanNotConnected
    \/ ScanRejected
    \/ ScanCacheHit
    \/ \E force \in BOOLEAN : ScanStart(force)
    \/ \E late \in BOOLEAN : TopPollFail(late)
    \/ \E late \in BOOLEAN : TopPollAgain(late)
    \/ \E late \in BOOLEAN : TopPollFound(late)
    \/ AllLoop
    \/ \E elapsed \in BOOLEAN : DeepEntry(elapsed)
    \/ PauseTick
    \/ \E late \in BOOLEAN : SubPollAgain(late)
    \/ \E late \in BOOLEAN : SubPollDone(late)
    \/ SubDelayDone
    \/ AttachStep
    \/ AttachFinish
    \/ DeepReturn
    \/ ManualNotConnected
    \/ ManualRejected
    \/ \E c \in 1..Len(commands) : ManualStart(c)
    \/ \E late \in BOOLEAN : ManualPollAgain(late)
    \/ \E late \in BOOLEAN : ManualPollDone(late)
    \/ ContinueDiscovery
    \/ CancelDiscovery
    \/ Connect
    \/ WsOpens
    \/ Disconnect
    \/ DeviceData

Spec == Init /\ [][Next]_vars

\* Timers fire and a running handler goes on: every step of a scan that
\* has started is taken sooner or later.  The user and the device owe nothing.
ScanProgress ==
    \/ \E late \in BOOLEAN : TopPollFail(late)
    \/ \E late \in BOOLEAN : TopPollAgain(late)
    \/ \E late \in BOOLEAN : TopPollFound(late)
    \/ AllLoop
    \/ \E elapsed \in BOOLEAN : DeepEntry(elapsed)
    \/ PauseTick
    \/ \E late \in BOOLEAN : SubPollAgain(late)
    \/ \E late \in BOOLEAN : SubPollDone(late)
    \/ SubDelayDone
    \/ AttachStep
    \/ AttachFinish
    \/ DeepReturn

FairSpec == Init /\ [][Next]_vars /\ WF_vars(ScanProgress)

\* The 50 ms timer of a manual discovery's wait fires as well.
ManualProgress ==
    \/ \E late \in BOOLEAN : ManualPollAgain(late)
    \/ \E late \in BOOLEAN : ManualPollDone(late)

WaitFairSpec ==
    Init /\ [][Next]_vars /\ WF_vars(ScanProgress) /\ WF_vars(ManualProgress)

\* Discovery together with executeCommand from the command list.
ExecNext ==
    \/ Next
    \/ \E c \in 1..Len(commands) : ExecuteCommand(c)

ExecSpec == Init /\ [][ExecNext]_vars

\* Discovery together with the import and the clearing of the command list.
CatalogNext ==
    \/ Next
    \/ \E data \in ImportFiles : ImportCommands(data)
    \/ ClearCommandsCache

CatalogSpec == Init /\ [][CatalogNext]_vars

(***************************************************************************)
(* A scan over any top-level listing: the shell may list a name more than  *)
(* once.  The scan has written its help probe and received the whole       *)
(* answer; from there it runs on, with the user at the pause dialog.       *)
(***************************************************************************)
\* Command lines in a listing.
MaxListed == 2

ListedNames == {<<"a">>, <<"b">>}

Listings ==
    {<<TopMarkerLine>> \o body \o <<PromptLine>> :
        body \in UNION {[1..n -> {CmdLine(x) : x \in ListedNames}] : n \in 0..MaxListed}}

ListingInit ==
    /\ connected = TRUE
    /\ wsOpen = TRUE
    /\ discoveryLock = TRUE
    /\ commandDiscoveryInProgress = TRUE
    /\ discoveryCollectedData \in Listings
    /\ over60 = FALSE
    /\ showDiscoveryConfirm = FALSE
    /\ discoveryPaused = FALSE
    /\ discoveryCancelRequested = FALSE
    /\ commands = << >>
    /\ commandsCache = NoObject
    /\ lastScannedTime = NoTime
    /\ storage = NoObject
    /\ loadingCommands = TRUE
    /\ showCommands = FALSE
    /\ statusMessageType = "info"
    /\ discoveringSubcommands = {}
    /\ scanPc = "top_wait"
    /\ scanI = 0
    /\ stack = << >>
    /\ manualPc = "idle"
    /\ manualCmd = 0
    /\ wait = StabilityStep(<< >>, InitialWait)
    /\ pending = << >>
    /\ probesSent = <<HelpProbe>>
    /\ treeAtCancel = << >>
    /\ discoveries = 1
    /\ parserInput = NoCall
    /\ parserOutput = NoCall
    /\ discoveryProgress = InitialProgress
    /\ activeSessionId = 1
    /\ otherSession = Closed(2)
    /\ scanSessionId = 1

ListingNext ==
    \/ ScanProgress
    \/ DeviceData
    \/ ContinueDiscovery
    \/ CancelDiscovery

ListingSpec == ListingInit /\ [][ListingNext]_vars

(***************************************************************************)
(* Two connected sessions, and the user switching between them             *)
(***************************************************************************)
\* Both sessions after connect() and their sockets' onopen.
SessionInit ==
    /\ connected = TRUE
    /\ wsOpen = TRUE
    /\ discoveryLock = FALSE
    /\ commandDiscoveryInProgress = FALSE
    /\ discoveryCollectedData = << >>
    /\ over60 = FALSE
    /\ showDiscoveryConfirm = FALSE
    /\ discoveryPaused = FALSE
    /\ discoveryCancelRequested = FALSE
    /\ commands = << >>
    /\ commandsCache = NoObject
    /\ lastScannedTime = NoTime
    /\ storage = NoObject
    /\ loadingCommands = FALSE
    /\ showCommands = FALSE
    /\ statusMessageType = "info"
    /\ discoveringSubcommands = {}
    /\ scanPc = "idle"
    /\ scanI = 0
    /\ stack = << >>
    /\ manualPc = "idle"
    /\ manualCmd = 0
    /\ wait = InitialWait
    /\ pending = << >>
    /\ probesSent = << >>
    /\ treeAtCancel = << >>
    /\ discoveries = 0
    /\ parserInput = NoCall
    /\ parserOutput = NoCall
    /\ discoveryProgress = InitialProgress
    /\ activeSessionId = 1
    /\ otherSession = [id |-> 2, connected |-> TRUE, wsOpen |-> TRUE,
                       pending |-> << >>]
    /\ scanSessionId = NoSession

\* The user leaves the session a scan was started on, and stays away.
SessionNext ==
    \/ \E force \in BOOLEAN : ScanStart(force)
    \/ ScanProgress
    \/ DeviceData
    \/ (activeSessionId = scanSessionId /\ SwitchSession)
    \/ OtherSessionData
    \/ ContinueDiscovery
    \/ CancelDiscovery

SessionSpec == SessionInit /\ [][SessionNext]_vars

(***************************************************************************)
(* The parsers alone: a help text the shell wrote, or a usage text, is     *)
(* given to one parser, once, and the value it returns is kept.            *)
(***************************************************************************)
\* Lines in a help text.
MaxWritten == 4

\* Tokens in a usage text.
MaxTokens == 3

ParsedLines ==
    {TopMarkerLine, SubMarkerLine, PromptLine, CmdLine(Log), CmdLine(Device),
     CmdLine(Backend), CmdLine(Enable), LeafLine(Log), LeafLine(Bypass)}

ParentCommands == {Log, Bypass}

Devmem == <<"d", "e", "v", "m", "e", "m">>
Address == <<"a", "d", "d", "r", "e", "s", "s">>
Width == <<"w", "i", "d", "t", "h">>

\* A word of a usage text: the command's name, or an argument in one of the
\* three forms.
UsageTokens ==
    {[form |-> "word", name |-> Devmem]}
        \cup {[form |-> f, name |-> n] :
                 f \in {"angle", "bracket_angle", "bracket"},
                 n \in {Address, Width}}

TokenText(token) ==
    CASE token.form = "word" -> token.name
      [] token.form = "angle" -> <<"<">> \o token.name \o <<">">>
      [] token.form = "bracket_angle" ->
             <<"[", "<">> \o token.name \o <<">", "]">>
      [] token.form = "bracket" -> <<"[">> \o token.name \o <<"]">>

RECURSIVE JoinTokens(_)
\* The tokens, separated by single spaces.
JoinTokens(tokens) ==
    IF tokens = << >> THEN << >>
    ELSE IF Len(tokens) = 1 THEN TokenText(Head(tokens))
    ELSE TokenText(Head(tokens)) \o SP \o JoinTokens(Tail(tokens))

HelpInputs ==
    {[written |-> w, helpText |-> JoinLines(w), parentCommand |-> p] :
        w \in UNION {[1..n -> ParsedLines] : n \in 0..MaxWritten},
        p \in ParentCommands}

UsageInputs ==
    {[tokens |-> t, helpText |-> JoinTokens(t)] :
        t \in UNION {[1..n -> UsageTokens] : n \in 0..MaxTokens}}

ParserInit ==
    /\ connected = FALSE
    /\ wsOpen = FALSE
    /\ discoveryLock = FALSE
    /\ commandDiscoveryInProgress = FALSE
    /\ discoveryCollectedData = << >>
    /\ over60 = FALSE
    /\ showDiscoveryConfirm = FALSE
    /\ discoveryPaused = FALSE
    /\ discoveryCancelRequested = FALSE
    /\ commands = << >>
    /\ commandsCache = NoObject
    /\ lastScannedTime = NoTime
    /\ storage = NoObject
    /\ loadingCommands = FALSE
    /\ showCommands = FALSE
    /\ statusMessageType = "info"
    /\ discoveringSubcommands = {}
    /\ scanPc = "idle"
    /\ scanI = 0
    /\ stack = << >>
    /\ manualPc = "idle"
    /\ manualCmd = 0
    /\ wait = InitialWait
    /\ pending = << >>
    /\ probesSent = << >>
    /\ treeAtCancel = << >>
    /\ discoveries = 0
    /\ parserInput \in HelpInputs \cup UsageInputs
    /\ parserOutput = NoCall
    /\ discoveryProgress = InitialProgress
    /\ activeSessionId = 1
    /\ otherSession = Closed(2)
    /\ scanSessionId = NoSession

\* Everything but the parser's call.
session ==
    <<conn, discoveryLock, commandDiscoveryInProgress, discoveryCollectedData,
      flags, catalog, loadingCommands, showCommands, statusMessageType,
      discoveringSubcommands, scanPc, walk, manual, wait, chan, treeAtCancel,
      discoveries, discoveryProgress, switching>>

CallParseHelpOutput ==
    /\ parserOutput = NoCall
    /\ "written" \in DOMAIN parserInput
    /\ parserOutput' = [fn |-> "parseHelpOutput",
                        value |-> ParseHelpOutputText(parserInput.helpText)]
    /\ UNCHANGED <<parserInput, session>>

CallParseSubcommands ==
    /\ parserOutput = NoCall
    /\ "written" \in DOMAIN parserInput
    /\ parserOutput' = [fn |-> "parseSubcommands",
                        value |-> ParseSubcommandsText(parserInput.helpText,
                                                       parserInput.parentCommand)]
    /\ UNCHANGED <<parserInput, session>>

CallParseArguments ==
    /\ parserOutput = NoCall
    /\ "tokens" \in DOMAIN parserInput
    /\ parserOutput' = [fn |-> "parseArguments",
                        value |-> ParseArguments(parserInput.helpText)]
    /\ UNCHANGED <<parserInput, session>>

ParserNext ==
    \/ CallParseHelpOutput
    \/ CallParseSubcommands
    \/ CallParseArguments

ParserSpec == ParserInit /\ [][ParserNext]_vars

(***************************************************************************)
(* Properties                                                              *)
(***************************************************************************)
\* Calls between taking the lock and releasing it.
Holders ==
    (IF scanPc # "idle" THEN 1 ELSE 0) + (IF manualPc # "idle" THEN 1 ELSE 0)

\* C1: in every reachable state at most one discovery (a scan or a manual
\* discovery) is between taking discoveryLock and releasing it, and the one
\* that is there holds the lock.
C1_AtMostOneHolder == Holders <= 1 /\ (Holders = 1 => discoveryLock)

\* A second discovery is in the locked section after the first has left it.
C1_Witness ==
    discoveries = 2 /\ manualPc = "wait" /\ scanPc = "idle" /\ discoveryLock

\* A request is turned away: the lock is held on a connected session, an
\* error is shown, and neither running call moves.
RejectedStep ==
    /\ discoveryLock
    /\ connected
    /\ statusMessageType # "error"
    /\ statusMessageType' = "error"
    /\ scanPc' = scanPc
    /\ manualPc' = manualPc

\* C2: a scanCommands or discoverSubcommands request made while the lock is
\* held sends no probe and changes neither the tree, the persisted cache,
\* the position of the walk, the probe buffer, the pause and cancel flags
\* nor the lock.
C2_RejectionChangesNothing ==
    [][RejectedStep =>
          UNCHANGED <<pending, probesSent, commands, commandsCache,
                      lastScannedTime, storage, scanI, stack,
                      discoveringSubcommands, discoveryCollectedData, wait,
                      over60, showDiscoveryConfirm, discoveryPaused,
                      discoveryCancelRequested, discoveryLock,
                      commandDiscoveryInProgress, loadingCommands>>]_vars

\* A request was turned away while the answer to the top-level probe was
\* still on its way (a session that had been disconnected has nothing on
\* its way, so the error is the rejection's).
C2_Witness ==
    /\ scanPc = "top_wait"
    /\ pending # << >>
    /\ discoveryLock
    /\ statusMessageType = "error"

\* C3: whenever a call that took the lock returns, by cache hit, completion,
\* cancellation, no commands found, timeout or error, discoveryLock and
\* commandDiscoveryInProgress are false.
C3_ReturnReleases ==
    [][(\/ scanPc # "idle" /\ scanPc' = "idle"
        \/ manualPc # "idle" /\ manualPc' = "idle"
        \/ ScanCacheHit)
          => (~discoveryLock' /\ ~commandDiscoveryInProgress')]_vars

\* A scan on which cancel was requested has returned.
C3_Witness ==
    /\ discoveries = 1
    /\ Holders = 0
    /\ discoveryCancelRequested
    /\ ~discoveryLock
    /\ ~commandDiscoveryInProgress

\* A node's own fields, and its children as a list.
OwnFields(node) ==
    [id |-> node.id, name |-> node.name, hasSubcommands |-> node.hasSubcommands]

SubsOf(node) == IF node.subcommands = NoArray THEN << >> ELSE node.subcommands

\* The scan returns after cancelDiscovery was called during the walk.
ReturnsAfterCancel ==
    scanPc # "idle" /\ scanPc' = "idle" /\ treeAtCancel # << >>

\* The statement C4 was given as: when the scan returns, every node that was
\* in the tree when cancel was called is in it with its fields as they were.
C4_NodesUnchanged ==
    [][ReturnsAfterCancel =>
          /\ ~discoveryLock'
          /\ Len(commands') >= Len(treeAtCancel)
          /\ \A j \in 1..Len(treeAtCancel) :
                 /\ OwnFields(commands'[j]) = OwnFields(treeAtCancel[j])
                 /\ Len(SubsOf(commands'[j])) >= Len(SubsOf(treeAtCancel[j]))
                 /\ \A h \in 1..Len(SubsOf(treeAtCancel[j])) :
                        SubsOf(commands'[j])[h] = SubsOf(treeAtCancel[j])[h]]_vars

\* C4: if cancelDiscovery is called during the subcommand walk, then when
\* the scan returns the lock is released and every node that was in the tree
\* at the cancel is still there, in its place, with its id and name; the
\* subcommands found by the probe in flight at the cancel are attached
\* behind the earlier ones and their top-level command is marked.
C4_NodesRetained ==
    [][ReturnsAfterCancel =>
          /\ ~discoveryLock'
          /\ Len(commands') = Len(treeAtCancel)
          /\ \A j \in 1..Len(treeAtCancel) :
                 /\ commands'[j].id = treeAtCancel[j].id
                 /\ commands'[j].name = treeAtCancel[j].name
                 /\ commands'[j].hasSubcommands
                        \in {treeAtCancel[j].hasSubcommands, "true"}
                 /\ Len(SubsOf(commands'[j])) >= Len(SubsOf(treeAtCancel[j]))
                 /\ \A h \in 1..Len(SubsOf(treeAtCancel[j])) :
                        SubsOf(commands'[j])[h] = SubsOf(treeAtCancel[j])[h]]_vars

\* Cancel came with subcommands already attached, the probe in flight added
\* to the tree, and the walk is about to return.
C4_Witness ==
    /\ scanPc = "all_loop"
    /\ discoveryCancelRequested
    /\ treeAtCancel # << >>
    /\ \E j \in 1..Len(treeAtCancel) : SubsOf(treeAtCancel[j]) # << >>
    /\ commands # treeAtCancel

\* C5: once cancel has been requested during a scan no further probe is
\* written for that scan, and the loop over the top-level commands stops at
\* its next turn.
C5_NoProbeAfterCancel ==
    [][(discoveryCancelRequested /\ scanPc # "idle") =>
          /\ Len(probesSent') <= Len(probesSent)
          /\ scanPc = "all_loop" => scanPc' = "idle"]_vars

\* Cancel was requested after a probe, with top-level commands still to walk.
C5_Witness ==
    /\ scanPc = "all_loop"
    /\ discoveryCancelRequested
    /\ scanI <= Len(commands)
    /\ probesSent # << >>
    /\ wsOpen

\* C6: after cancel is requested during a scan, also while it is paused, the
\* scan returns and the lock is released without any further call by the
\* user and whatever the device sends; until then it begins no new wait for
\* a response and no new pause, only the short delay behind the probe that
\* was in flight.
C6_CancelReturns ==
    /\ (discoveryCancelRequested /\ scanPc # "idle")
           ~> (scanPc = "idle" /\ ~discoveryLock)
    /\ [][(discoveryCancelRequested /\ scanPc # "idle") =>
             /\ scanPc' \in {"top_wait", "sub_wait", "paused"} => scanPc' = scanPc
             /\ scanPc' = "sub_delay" => scanPc \in {"sub_wait", "sub_delay"}]_vars

\* Cancel was requested while the scan was waiting in the pause loop.
C6_Witness ==
    scanPc = "paused" /\ discoveryCancelRequested /\ ~discoveryPaused /\ over60

\* C7: when discoverDeep finds more than 60 s elapsed the scan enters the
\* pause, and as long as neither continueDiscovery nor cancelDiscovery has
\* been called it stays there and writes no probe.
C7_PauseUntilAnswered ==
    [][/\ (scanPc = "deep_entry" /\ ~discoveryCancelRequested /\ over60') =>
              /\ scanPc' = "paused"
              /\ discoveryPaused'
              /\ showDiscoveryConfirm'
              /\ probesSent' = probesSent
       /\ (scanPc = "paused" /\ discoveryPaused) =>
              /\ scanPc' = "paused"
              /\ probesSent' = probesSent]_vars

\* The scan is paused with the confirmation shown and a node still to probe.
C7_Witness ==
    /\ scanPc = "paused"
    /\ discoveryPaused
    /\ showDiscoveryConfirm
    /\ over60
    /\ probesSent # << >>
    /\ stack # << >>

\* The stored text is JSON with a version and a commands field.
Usable(text) ==
    /\ text # NoObject
    /\ text # GarbageText
    /\ "version" \in DOMAIN text.json
    /\ "commands" \in DOMAIN text.json

C9_SavedAfterAttach ==
    [][(scanPc = "attach_loop" /\ scanPc' = "deep_return") =>
          /\ Usable(storage')
          /\ storage'.json.commands = commands']_vars

\* C10, as given: for every tree the discovery produces, saving it and
\* loading what was saved gives the same nodes in the same order.
C10_SaveLoadRoundTrip ==
    LET text == JsonStringify(CacheObject(commands, SessionTime))
    IN /\ text # THROWN
       /\ JsonParse(text).commands = commands

\* A step of the walk that writes the probe of the node discoverDeep was
\* entered with.
WalkProbes ==
    /\ scanPc \in {"deep_entry", "paused"}
    /\ scanPc' = "sub_wait"
    /\ Len(probesSent') > Len(probesSent)

\* C11, as given: the walk of a scan writes no --help probe for a node whose
\* hasSubcommands is false.
C11_NoProbeForNoChildren ==
    [][WalkProbes =>
          ~ /\ "hasSubcommands" \in DOMAIN TopFrame.cmd
            /\ TopFrame.cmd.hasSubcommands = "false"]_vars

ProbeAttempt ==
    \/ scanPc = "idle" /\ scanPc' = "top_wait"
    \/ scanPc \in {"deep_entry", "paused"} /\ scanPc' = "sub_wait"
    \/ manualPc = "idle" /\ manualPc' = "wait"

\* C13, as given: when the socket is not open at the moment a probe is to be
\* written, the discovery ends there with an error shown and the lock
\* released.
C13_ClosedChannelAborts ==
    [][(ProbeAttempt /\ ~wsOpen) =>
          /\ scanPc' = "idle"
          /\ manualPc' = "idle"
          /\ ~discoveryLock'
          /\ statusMessageType' = "error"]_vars

\* C14, as given: when the probe of a top-level command yields no
\* subcommand (no answer within the bound, or none parsed), the command's
\* hasSubcommands becomes false and the walk goes on with the next command.
C14_NoSubsMarksNoChildren ==
    [][(scanPc = "sub_delay" /\ scanPc' = "deep_return" /\ Len(stack) = 1) =>
          /\ TopFrame.subs = << >>
          /\ commands'[scanI].hasSubcommands = "false"]_vars

IsPrefix(p, t) == Len(p) <= Len(t) /\ SubSeq(t, 1, Len(p)) = p

\* C15, as given: while the walk waits for the answer to the probe of a
\* node, the buffer it will parse holds nothing but what the shell wrote in
\* answer to that probe.
C15_OnlyOwnResponse ==
    scanPc = "sub_wait" =>
        IsPrefix(discoveryCollectedData,
                 ShellLines(Trim(CmdName(TopFrame.cmd)) \o HelpSuffix))

\* C16, as given: while the discovery lock is held nothing but the discovery
\* writes to the channel; executeCommand writes its line only when the lock
\* is free.
C16_SoleWriterWhileLocked ==
    [][((\E c \in 1..Len(commands) : ExecuteCommand(c)) /\ wsOpen)
          => ~discoveryLock]_vars

\* C17, as given: while a scan or a subcommand discovery holds the lock,
\* importCommands and clearCommandsCache change neither the command tree
\* nor the cache.
C17_CatalogEditsWaitForLock ==
    [][(/\ discoveryLock
        /\ \/ \E data \in ImportFiles : ImportCommands(data)
           \/ ClearCommandsCache)
          => UNCHANGED <<commands, commandsCache, storage>>]_vars

\* Every node of the tree before is in the tree after, in its place: the
\* top-level commands by id and name, their subcommands as they were.
NodesKept(before, after) ==
    /\ Len(after) = Len(before)
    /\ \A j \in 1..Len(before) :
           /\ after[j].id = before[j].id
           /\ after[j].name = before[j].name
           /\ Len(SubsOf(after[j])) >= Len(SubsOf(before[j]))
           /\ \A h \in 1..Len(SubsOf(before[j])) :
                  SubsOf(after[j])[h] = SubsOf(before[j])[h]

\* C18, as given: the discovery of one node's subcommands, in the walk or by
\* discoverSubcommands, only adds nodes: none already in the tree is
\* removed, replaced or moved.
C18_DiscoveryIsAdditive ==
    [][(scanPc \in {"sub_delay", "attach_loop"} \/ manualPc = "wait")
          => NodesKept(commands, commands')]_vars

\* No two nodes of a list have the same name.
DistinctNames(nodes) ==
    \A i, j \in 1..Len(nodes) : i # j => nodes[i].name # nodes[j].name

\* C19, as given: after every completed scan the top-level names are
\* pairwise distinct, and so are the names of the subcommands attached under
\* each top-level command, whatever listing the shell returned.
C19_SiblingNamesUnique ==
    (scanPc = "idle" /\ ~discoveryLock /\ ~discoveryCancelRequested) =>
        /\ DistinctNames(commands)
        /\ \A c \in 1..Len(commands) : DistinctNames(SubsOf(commands[c]))

\* The statement C20 was given as: the full path of every subcommand node
\* is the full path of the command it was found under, followed by the
\* node's name.
C20_PathFromParent ==
    \A c \in 1..Len(commands) :
        \A h \in 1..Len(SubsOf(commands[c])) :
            LET sub == SubsOf(commands[c])[h]
            IN Trim(sub.fullName) = sub.parent \o SP \o sub.name

\* C20: every subcommand node sits in the list of its top-level command,
\* at whatever depth it was found; its full name, without the trailing
\* space, is that top-level command's name followed by the node's name, the
\* name being the node's path below the top-level command; and the full
\* name begins with the full name of the command it was found under.
C20_PathFromTopLevel ==
    \A c \in 1..Len(commands) :
        \A h \in 1..Len(SubsOf(commands[c])) :
            LET sub == SubsOf(commands[c])[h]
            IN /\ Trim(sub.fullName) = commands[c].name \o SP \o sub.name
               /\ StartsWith(sub.fullName, sub.parent \o SP)

\* A node found two levels down is attached under its top-level command.
C20_Witness ==
    \E c \in 1..Len(commands) :
        \E h \in 1..Len(SubsOf(commands[c])) :
            /\ SubsOf(commands[c])[h].parent # commands[c].name
            /\ SubsOf(commands[c])[h].parentCmd # NoRef

\* Names of the commands from the root to the node the innermost activation
\* of the walk holds: the top-level command, then at every level the name
\* the listing gave the subcommand the loop of that level is at.
PathOfWalk ==
    <<stack[1].cmd.name>>
        \o [j \in 1..(Len(stack) - 1) |-> stack[j].subs[stack[j].k].name]

RECURSIVE JoinPath(_)
\* path.join(' ')
JoinPath(path) ==
    IF Len(path) = 1 THEN Head(path)
    ELSE Head(path) \o SP \o JoinPath(Tail(path))

\* A step that writes a probe to the channel.
WritesProbe == probesSent' # probesSent /\ probesSent' # << >>

C22_CacheOrProbe ==
    [][/\ ScanCacheHit =>
              /\ commands' = storage.json.commands
              /\ UNCHANGED <<pending, probesSent>>
       /\ ScanStart(TRUE) =>
              /\ probesSent' = <<HelpProbe>>
              /\ pending' # pending]_vars

\* The top-level wait of a scan over a usable cache resolves: the scan was
\* forced, or it would have returned with the cache.
ForcedRescanSucceeds ==
    scanPc = "top_wait" /\ scanPc' = "all_loop" /\ LoadAccepts

\* C23, as given: when a forced top-level rescan succeeds, the root list is
\* exactly the list of the shell's new answer to help, every node as
\* parsed, without subcommands, and nothing of the earlier catalog is left.
C23_RescanReplaces ==
    [][ForcedRescanSucceeds =>
          commands' = ParseHelpOutput(ShellLines(HelpProbe))]_vars

\* Names of the command lines written after the first line equal to marker.
ListedAfter(written, marker) ==
    LET at == IF \E j \in 1..Len(written) : written[j] = marker
              THEN CHOOSE j \in 1..Len(written) :
                       /\ written[j] = marker
                       /\ \A h \in 1..(j - 1) : written[h] # marker
              ELSE Len(written)
        listed == SelectSeq(SubSeq(written, at + 1, Len(written)),
                            LAMBDA line : line.k = "cmd")
    IN [j \in 1..Len(listed) |-> listed[j].n]

\* C24: parseHelpOutput returns one node for every command line written
\* after the header of the listing, in the order of the lines, named as the
\* line names it, with hasSubcommands null and no subcommands; for the
\* listing of log and device these are log, then device.
C24_TopLevelInListingOrder ==
    parserOutput.fn = "parseHelpOutput" =>
        LET listed == ListedAfter(parserInput.written, TopMarkerLine)
            nodes == parserOutput.value
        IN /\ Len(nodes) = Len(listed)
           /\ \A j \in 1..Len(listed) :
                  /\ nodes[j].name = listed[j]
                  /\ nodes[j].hasSubcommands = NULL
                  /\ nodes[j].subcommands = NoArray

\* The listing of log and device, with the prompt behind it, has been parsed.
C24_Witness ==
    /\ parserOutput.fn = "parseHelpOutput"
    /\ parserInput.written =
           <<TopMarkerLine, CmdLine(Log), CmdLine(Device), PromptLine>>
    /\ Len(parserOutput.value) = 2
    /\ parserOutput.value[1].name = Log
    /\ parserOutput.value[2].name = Device

\* The words of a node's fullName: its path from the top-level command.
FullPath(node) ==
    SelectSeq(Split(node.fullName, " "), LAMBDA word : word # << >>)

\* C25: parseSubcommands, called for log on a response that holds the
\* header of the subcommand section and behind it the lines of backend and
\* of enable, in that order, returns exactly two nodes, whose full paths are
\* [log, backend] and [log, enable], in that order.
C25_LogSubcommandPaths ==
    (/\ parserOutput.fn = "parseSubcommands"
     /\ parserInput.parentCommand = Log
     /\ \E j \in 1..Len(parserInput.written) :
            parserInput.written[j] = SubMarkerLine
     /\ ListedAfter(parserInput.written, SubMarkerLine) = <<Backend, Enable>>)
        => [j \in 1..Len(parserOutput.value) |-> FullPath(parserOutput.value[j])]
               = << <<Log, Backend>>, <<Log, Enable>> >>

\* The response to log --help has been parsed: the description of log, the
\* header, backend, enable.
C25_Witness ==
    /\ parserOutput.fn = "parseSubcommands"
    /\ parserInput.parentCommand = Log
    /\ parserInput.written =
           <<LeafLine(Log), SubMarkerLine, CmdLine(Backend), CmdLine(Enable)>>
    /\ Len(parserOutput.value) = 2
    /\ FullPath(parserOutput.value[2]) = <<Log, Enable>>

RECURSIVE ArgumentsOf(_, _)
\* What the usage text asks for: the argument tokens in the order written,
\* one per name, required when written <name>, optional when written
\* [<name>] or [name].
ArgumentsOf(tokens, seen) ==
    IF tokens = << >> THEN << >>
    ELSE IF Head(tokens).form = "word" \/ Head(tokens).name \in seen
    THEN ArgumentsOf(Tail(tokens), seen)
    ELSE <<[name |-> Head(tokens).name,
            required |-> (Head(tokens).form = "angle")]>>
             \o ArgumentsOf(Tail(tokens), seen \cup {Head(tokens).name})

\* The usage line devmem <address> [<width>].
DevmemUsage ==
    <<[form |-> "word", name |-> Devmem],
      [form |-> "angle", name |-> Address],
      [form |-> "bracket_angle", name |-> Width]>>

\* C26: parseArguments returns one argument for every name written as
\* <name>, [<name>] or [name], in the order of first appearance, required
\* exactly when the first appearance is <name>; for devmem <address>
\* [<width>] these are address, required, then width, optional.
C26_ArgumentsInOrder ==
    parserOutput.fn = "parseArguments" =>
        LET args == [j \in 1..Len(parserOutput.value) |->
                        [name |-> parserOutput.value[j].name,
                         required |-> parserOutput.value[j].required]]
        IN /\ args = ArgumentsOf(parserInput.tokens, {})
           /\ parserInput.tokens = DevmemUsage =>
                  args = <<[name |-> Address, required |-> TRUE],
                           [name |-> Width, required |-> FALSE]>>

\* The usage line of devmem has been parsed.
C26_Witness ==
    /\ parserOutput.fn = "parseArguments"
    /\ parserInput.tokens = DevmemUsage
    /\ Len(parserOutput.value) = 2
    /\ parserOutput.value[2].required = FALSE

\* A name written twice has been parsed: [address] after <address>.
C26_WitnessRepeated ==
    /\ parserOutput.fn = "parseArguments"
    /\ parserInput.tokens =
           <<[form |-> "angle", name |-> Address],
             [form |-> "bracket", name |-> Address]>>
    /\ Len(parserOutput.value) = 1

\* The response has at most three lines, one of them the probed command's
\* name with its description behind a dash.
ShortWithOwnDescription ==
    /\ Len(parserInput.written) <= 3
    /\ \E j \in 1..Len(parserInput.written) :
           parserInput.written[j] = LeafLine(parserInput.parentCommand)

\* C27: for a response of at most three lines that holds the probed
\* command's name with a dash-delimited description, parseSubcommands
\* returns no subcommand at once only if the response holds no header of a
\* subcommand section; with the header, the subcommands listed behind it are
\* returned.  The one line bypass - Bypass shell yields no subcommand.
C27_LeafOnlyWithoutMarker ==
    (parserOutput.fn = "parseSubcommands" /\ ShortWithOwnDescription) =>
        LET listed == SelectSeq(ListedAfter(parserInput.written, SubMarkerLine),
                                LAMBDA n : n # parserInput.parentCommand)
        IN IF \E j \in 1..Len(parserInput.written) :
                  parserInput.written[j] = SubMarkerLine
           THEN [j \in 1..Len(parserOutput.value) |-> parserOutput.value[j].name]
                    = listed
           ELSE parserOutput.value = << >>

\* The half of C27 that holds: without the header, such a response yields no
\* subcommand.
C27_LeafWithoutMarker ==
    (/\ parserOutput.fn = "parseSubcommands"
     /\ ShortWithOwnDescription
     /\ \A j \in 1..Len(parserInput.written) :
            parserInput.written[j] # SubMarkerLine)
        => parserOutput.value = << >>

\* bypass - Bypass shell has been parsed for bypass.
C27_WitnessBypass ==
    /\ parserOutput.fn = "parseSubcommands"
    /\ parserInput.parentCommand = Bypass
    /\ parserInput.written = <<LeafLine(Bypass)>>
    /\ parserOutput.value = << >>

\* The buffer's length is what the last check saw, for the whole window.
StableWindow ==
    /\ DataLength(discoveryCollectedData) = wait.lastDataLength
    /\ wait.noDataChangedCount + 1 >= SubStablePolls

\* A subcommand probe's wait is pending, in the walk or in a manual discovery.
SubWaitPending == scanPc = "sub_wait" \/ manualPc = "wait"

\* C28: a pending wait of a subcommand probe is settled sooner or later,
\* whatever the device sends and also if it sends nothing; a check settles
\* it only with a prompt at the end of the buffer, with the buffer's length
\* unchanged for the stability window, or past the timeout, and with a
\* stable buffer or past the timeout it always does; settling is resolving:
\* the walk goes on to parse the buffer as it is, the lock and the status
\* message untouched, and a manual discovery reports the parse's result.
C28_SubWaitSettles ==
    /\ (scanPc = "sub_wait") ~> (scanPc # "sub_wait")
    /\ (manualPc = "wait") ~> (manualPc # "wait")
    /\ [](SubWaitPending =>
             \A late \in BOOLEAN :
                 /\ SubOutcome(discoveryCollectedData, wait, late) # "again"
                        => \/ EndsWithPrompt(discoveryCollectedData)
                           \/ StableWindow
                           \/ late
                 /\ (StableWindow \/ late)
                        => SubOutcome(discoveryCollectedData, wait, late) # "again")
    /\ [][(scanPc = "sub_wait" /\ scanPc' # "sub_wait") =>
             /\ scanPc' = "sub_delay"
             /\ stack'[Len(stack')].subs =
                    ParseSubcommands(discoveryCollectedData,
                                     Trim(CmdName(TopFrame.cmd)))
             /\ UNCHANGED <<discoveryLock, statusMessageType,
                            discoveryCollectedData>>]_vars
    /\ [][(manualPc = "wait" /\ manualPc' # "wait") =>
             /\ manualPc' = "idle"
             /\ ~discoveryLock'
             /\ statusMessageType' = "info"
                    <=> ParseSubcommands(discoveryCollectedData,
                                         TopFrame.cmd.name) = << >>]_vars

\* The wait of a probe that got no answer has settled: the empty buffer was
\* parsed and the walk is in the short delay behind the probe.
C28_Witness ==
    /\ scanPc = "sub_delay"
    /\ discoveryCollectedData = << >>
    /\ pending = << >>
    /\ TopFrame.subs = << >>

\* A wait is pending with nothing received and the window not yet over: only
\* the timeout can settle it at this check.
C28_WitnessTimeout ==
    /\ scanPc = "sub_wait"
    /\ discoveryCollectedData = << >>
    /\ ~StableWindow

\* C29, as given: the wait for the top-level listing resolves only at a
\* check that finds a prompt at the end of the buffer or the buffer's length
\* unchanged for the stability window; never at a check where the buffer has
\* grown since the check before and does not end with a prompt.
C29_TopCompletesOnPromptOrStable ==
    [][(scanPc = "top_wait" /\ scanPc' = "all_loop") =>
          \/ EndsWithPrompt(discoveryCollectedData)
          \/ /\ DataLength(discoveryCollectedData) = wait.lastDataLength
             /\ wait.noDataChangedCount + 1 >= TopStablePolls]_vars

\* The half of C29 that holds: the wait resolves only with the header of the
\* listing and at least one command in the buffer.
C29_TopCompletesWithCommands ==
    [][(scanPc = "top_wait" /\ scanPc' = "all_loop") =>
          Len(ParseHelpOutput(discoveryCollectedData)) > 0]_vars

\* C30, as given: the walk attaches every subcommand it discovers, at
\* whatever depth, to the subcommands list of the top-level command it
\* descends from, never to a list of its direct parent, and when the loop
\* over the subcommands of a probed command is over that top-level command
\* has hasSubcommands true; so every discovered path is in the list of
\* exactly one entry of the root list.
C30_FlattenedUnderTopLevel ==
    /\ [](\A c \in 1..Len(commands) :
             \A h \in 1..Len(SubsOf(commands[c])) :
                 /\ "subcommands" \notin DOMAIN SubsOf(commands[c])[h]
                 /\ IsPrefix(commands[c].name \o SP, SubsOf(commands[c])[h].fullName)
                 /\ \A d \in 1..Len(commands) :
                        \A g \in 1..Len(SubsOf(commands[d])) :
                            SubsOf(commands[d])[g].fullName
                                = SubsOf(commands[c])[h].fullName => d = c)
    /\ [][(scanPc = "attach_loop" /\ scanPc' = "deep_entry" /\ RootLive) =>
             \E h \in 1..Len(SubsOf(commands'[scanI])) :
                 SubsOf(commands'[scanI])[h].fullName
                     = TopFrame.subs[TopFrame.k].fullName]_vars
    /\ [][(scanPc = "attach_loop" /\ scanPc' = "deep_return" /\ RootLive) =>
             commands'[scanI].hasSubcommands = "true"]_vars

\* What holds of C30: attachment to the top-level command, flat, under a
\* command whose name begins the path, and the mark; not that one entry
\* only holds the path.
C30_AttachedAndMarked ==
    /\ [](\A c \in 1..Len(commands) :
             \A h \in 1..Len(SubsOf(commands[c])) :
                 /\ "subcommands" \notin DOMAIN SubsOf(commands[c])[h]
                 /\ IsPrefix(commands[c].name \o SP, SubsOf(commands[c])[h].fullName))
    /\ [][(scanPc = "attach_loop" /\ scanPc' = "deep_entry" /\ RootLive) =>
             \E h \in 1..Len(SubsOf(commands'[scanI])) :
                 SubsOf(commands'[scanI])[h].fullName
                     = TopFrame.subs[TopFrame.k].fullName]_vars
    /\ [][(scanPc = "attach_loop" /\ scanPc' = "deep_return" /\ RootLive) =>
             commands'[scanI].hasSubcommands = "true"]_vars

\* The walk has returned from a subcommand two levels down: its node is in
\* the list of its top-level command, which is marked.
C30_Witness ==
    /\ scanPc = "deep_return"
    /\ \E c \in 1..Len(commands) :
           /\ commands[c].hasSubcommands = "true"
           /\ \E h \in 1..Len(SubsOf(commands[c])) :
                  Len(FullPath(SubsOf(commands[c])[h])) = 3

\* The phase of the scan at a position of scanCommands.
Phase(pc) ==
    CASE pc = "idle" -> "Idle"
      [] pc = "top_wait" -> "ScanningTop"
      [] pc = "paused" -> "Paused"
      [] OTHER -> "ScanningNodes"

\* The changes of phase the order Idle, ScanningTop, ScanningNodes
\* (alternating with Paused), Idle allows; a scan whose top-level wait
\* fails goes from ScanningTop to Idle.
PhaseOrder ==
    {<<"Idle", "ScanningTop">>, <<"ScanningTop", "ScanningNodes">>,
     <<"ScanningTop", "Idle">>, <<"ScanningNodes", "Paused">>,
     <<"Paused", "ScanningNodes">>, <<"ScanningNodes", "Idle">>}

\* C31: the phase of a scan changes only along Idle, ScanningTop,
\* ScanningNodes (alternating with Paused), Idle; the walk is entered only
\* from a top-level wait that resolved with at least one parsed command; and
\* a scan writes a --help probe only in ScanningNodes (or on its way back
\* there from Paused), after its own help probe, with a command list that is
\* not empty.
C31_PhasesInOrder ==
    /\ [][Phase(scanPc') # Phase(scanPc) =>
             <<Phase(scanPc), Phase(scanPc')>> \in PhaseOrder]_vars
    /\ [][(Phase(scanPc) = "ScanningTop" /\ Phase(scanPc') = "ScanningNodes") =>
             /\ Len(ParseHelpOutput(discoveryCollectedData)) > 0
             /\ commands' = ParseHelpOutput(discoveryCollectedData)]_vars
    /\ [][(WritesProbe /\ scanPc' # "top_wait" /\ manualPc' = manualPc) =>
             /\ Phase(scanPc) \in {"ScanningNodes", "Paused"}
             /\ Phase(scanPc') = "ScanningNodes"
             /\ Len(probesSent') >= 2
             /\ probesSent'[1] = HelpProbe
             /\ Len(commands) > 0]_vars

\* A scan in ScanningNodes waits for the answer to a --help probe it wrote
\* after its help probe.
C31_Witness ==
    /\ scanPc = "sub_wait"
    /\ Len(probesSent) >= 2
    /\ probesSent[1] = HelpProbe
    /\ probesSent[2] # HelpProbe
    /\ Len(commands) > 0

\* The subcommand walk of a scan is in progress.
WalkRuns == scanPc \notin {"idle", "top_wait"}

\* C32, as given: during the subcommand walk 0 <= current <= total and
\* total is the number of top-level commands, current never decreases, and
\* when the walk completes without a cancel current equals total.
C32_ProgressCounts ==
    /\ [](WalkRuns =>
             /\ 0 <= discoveryProgress.current
             /\ discoveryProgress.current <= discoveryProgress.total
             /\ discoveryProgress.total = Len(commands))
    /\ [][discoveryProgress'.current >= discoveryProgress.current]_vars
    /\ [][(scanPc = "all_loop" /\ scanPc' = "idle" /\ ~discoveryCancelRequested) =>
             discoveryProgress'.current = discoveryProgress'.total]_vars

\* What holds of C32: the counters never change, so current never decreases
\* and 0 <= current <= total; both stay 0.
C32_ProgressNeverWritten ==
    discoveryProgress = InitialProgress

\* C33, as given: the timeout of a wait for the answer to a subcommand probe
\* is shorter than the timeout of the wait for the top-level listing.
C33_SubBoundShorter ==
    (scanPc = "sub_wait" \/ manualPc = "wait") => WaitTimeout < TopTimeout

\* A request is turned away because the session is not connected: the error
\* is shown and neither operation moves.
NotConnectedStep ==
    /\ ~connected
    /\ statusMessageType # "error"
    /\ statusMessageType' = "error"
    /\ scanPc' = scanPc
    /\ manualPc' = manualPc

\* C34: scanCommands or discoverSubcommands called while the session is not
\* connected returns at once: the lock is not taken, nothing is written to
\* the channel, and the tree, the cache in memory and the cache in
\* localStorage stay as they are, as does everything else of the discovery.
C34_NotConnectedChangesNothing ==
    [][NotConnectedStep =>
          UNCHANGED <<discoveryLock, pending, probesSent, commands,
                      commandsCache, lastScannedTime, storage, loadingCommands,
                      commandDiscoveryInProgress, discoveryCollectedData,
                      showCommands, scanI, stack, wait, discoveries>>]_vars

\* A request was turned away before any scan or discovery had run: the
\* session is not connected, the error is shown, the lock is free.
C34_Witness ==
    /\ ~connected
    /\ statusMessageType = "error"
    /\ discoveries = 0
    /\ ~discoveryLock
    /\ probesSent = << >>

\* The scan in progress has paused for the 60-second confirmation and the
\* user has answered with continueDiscovery: the clock was read past 60 s,
\* the dialog is closed again and no cancel was requested.
Continued ==
    /\ scanPc # "idle"
    /\ over60
    /\ ~showDiscoveryConfirm
    /\ ~discoveryCancelRequested

\* C35, as given: once the user has confirmed the continuation of a paused
\* scan, that scan does not enter the pause again.
C35_NoSecondPause ==
    [][(Continued /\ scanPc # "paused") => scanPc' # "paused"]_vars

\* What holds of C35: the answer ends the pause it was given to; the walk
\* goes on with the probe of the node it had paused at.
C35_ContinueEndsPause ==
    [][(Continued /\ scanPc = "paused" /\ scanPc' # "paused") =>
          scanPc' = "sub_wait"]_vars

\* C39: whenever discoveryPaused is true the lock is held and the
\* confirmation dialog is shown; with the lock free discoveryPaused is false.
C39_PausedImpliesLockAndConfirm ==
    discoveryPaused => (discoveryLock /\ showDiscoveryConfirm)

\* A scan is paused, waiting for the user's answer.
C39_Witness ==
    /\ discoveryPaused
    /\ scanPc = "paused"
    /\ discoveryLock
    /\ showDiscoveryConfirm

\* C36, as given: the probes a scan has written are pairwise different: no
\* full path is probed twice within one scan.
C36_NoPathProbedTwice ==
    scanPc # "idle" =>
        \A j, h \in 1..Len(probesSent) :
            probesSent[j] = probesSent[h] => j = h

\* C37: all probes of one scan are written to, and all chunks collected
\* for it are read from, the session that was active when the scan started,
\* even if the user switches the active session while the scan is running.
ScanCollects ==
    /\ scanPc # "idle"
    /\ Len(discoveryCollectedData') > Len(discoveryCollectedData)

C37_ScanStaysOnItsSession ==
    [][/\ (WritesProbe /\ scanPc' # "idle")
            => activeSessionId' = scanSessionId'
       /\ ScanCollects => activeSessionId = scanSessionId]_vars

\* What the code does keep: a session that is not the active one
\* contributes nothing to the buffer of a discovery.
C37_InactiveSessionNotCollected ==
    [][otherSession'.pending # otherSession.pending /\ activeSessionId' = activeSessionId
           => discoveryCollectedData' = discoveryCollectedData]_vars

\* C38: when loadCachedCommands rejects the stored data (missing version
\* or commands, or unparsable JSON) it leaves commands, commandsCache and
\* lastScannedTime exactly as they were before the call, so the rejected
\* data is not used by any later operation such as exportCommands.
LoadRejectedStep ==
    /\ scanPc = "idle"
    /\ scanPc' = "top_wait"
    /\ storage # NoObject
    /\ ~LoadAccepts

C38_RejectionChangesNothing ==
    [][LoadRejectedStep
           => UNCHANGED <<commands, commandsCache, lastScannedTime>>]_vars

\* The same read from exportCommands: the file never holds stored data
\* that parses and fails the validation.
C38_RejectedDataNotExported ==
    (storage # NoObject /\ JsonParse(storage) # THROWN /\ ~LoadAccepts)
        => ExportCommands # JsonParse(storage)

\* What the code does keep: commands and lastScannedTime are left alone by
\* every rejection, and commandsCache by the rejection of unparsable text.
C38_RejectionKeepsCommands ==
    [][LoadRejectedStep
           => /\ UNCHANGED <<commands, lastScannedTime>>
              /\ JsonParse(storage) = THROWN => UNCHANGED commandsCache]_vars

====
